---------------------------- MODULE Spec2Model ----------------------------
(***************************************************************************)
(* A model of py_linenoise (src/linenoise.py): the line editing session    *)
(* (edit_start / edit_feed / edit_stop driven by the blocking read), the   *)
(* history store with its save/load file, and raw mode handling.           *)
(*                                                                         *)
(* Characters are their integer codes; a string is a sequence of codes.    *)
(* The line buffer is a Python list of one-character strings, so it is a   *)
(* sequence of codes as well, in which EMPTY stands for the empty string   *)
(* that _getc hands back at end of file.                                   *)
(***************************************************************************)
EXTENDS Integers, Sequences, FiniteSets, TLC

\* ------------------------------------------------------------------ bounds
MaxBuf == 2     \* typing is cut off once the buffer holds this many items
MaxHist == 2    \* largest history_maxlen given to the history store
MaxAdds == 3    \* history_add calls logged by the history-store specification
PLen == 2       \* len(prompt)
MaxRef == 3     \* the reference-editor sessions type this many characters at most
MaxUps == 3     \* Up presses counted in one session
MaxTabs == 4    \* Tab presses counted in one completion
Cols == 4       \* terminal width returned by get_columns
MaxPolls == 3   \* calls of fn in one loop()
MaxLine == 5    \* characters of a command line given to the menu

\* --------------------------------------------------------------- key codes
_KEY_NULL == 0
_KEY_CTRL_A == 1
_KEY_CTRL_B == 2
_KEY_CTRL_C == 3
_KEY_CTRL_D == 4
_KEY_CTRL_E == 5
_KEY_CTRL_F == 6
_KEY_CTRL_H == 8
_KEY_TAB == 9
_KEY_CTRL_K == 11
_KEY_CTRL_L == 12
_KEY_ENTER == 13
_KEY_CTRL_N == 14
_KEY_CTRL_P == 16
_KEY_CTRL_T == 20
_KEY_CTRL_U == 21
_KEY_CTRL_W == 23
_KEY_ESC == 27
_KEY_BS == 127

\* os.read(fd, 1) at end of file gives b"", which is not equal to the str ""
\* it is compared with, so _getc returns b"".decode() = "": the empty string.
EMPTY == -1
\* self.hotkey = None
NoHotkey == -2
\* "\n", the line separator of the history file
NL == 10
\* the column count assumed when it cannot be worked out
_DEFAULT_COLS == 80

\* EditResult
EOF_OR_ERROR == "EOF_OR_ERROR"
MORE == "MORE"
ENTER == "ENTER"
HOTKEY == "HOTKEY"
ESCAPE == "ESCAPE"

\* ---------------------------------------------------------------- helpers
Min(a, b) == IF a < b THEN a ELSE b

\* s[:n]
Take(s, n) == SubSeq(s, 1, Min(n, Len(s)))

\* s[n:]
Drop(s, n) == SubSeq(s, Min(n, Len(s)) + 1, Len(s))

\* the last n items of s
Last(s, n) == Drop(s, Len(s) - Min(n, Len(s)))

\* list.pop(i) with a 0-based index i inside the list
PopAt(s, i) == Take(s, i) \o Drop(s, i + 1)

\* list.insert(i, c) with 0 <= i <= len
InsertAt(s, i, c) == Take(s, i) \o <<c>> \o Drop(s, i)

\* str.isspace() of a one-character (or empty) string, ASCII range
IsSpace(c) == c \in {9, 10, 11, 12, 13, 28, 29, 30, 31, 32}

\* "".join(self.buf): the empty strings in the list vanish
Str(buf) == SelectSeq(buf, LAMBDA c : c # EMPTY)

\* ------------------------------------------------------------ line_state
\* The fields of line_state that change after construction, and shown: the
\* buffer and cursor that the last refresh_line wrote to the terminal.
NewLs == [buf |-> <<>>, pos |-> 0, history_idx |-> 0, oldpos |-> 0, maxrows |-> 0,
          shown |-> [buf |-> <<>>, pos |-> 0]]

\* refresh_multiline(clear=True, write=True): the state it leaves behind
refresh_multiline(l) ==
    LET rows == (PLen + Len(l.buf) + Cols - 1) \div Cols
        atend == l.pos # 0 /\ l.pos = Len(l.buf) /\ (l.pos + PLen) % Cols = 0
        rows2 == IF atend THEN rows + 1 ELSE rows
    IN  [l EXCEPT !.maxrows = rows2, !.oldpos = l.pos]

\* refresh_line: single-line refresh only writes to the terminal
refresh_line(l, ml) ==
    [(IF ml THEN refresh_multiline(l) ELSE l) EXCEPT !.shown = [buf |-> l.buf, pos |-> l.pos]]

\* The host's hints callback, here the one of src/example.py with "a" for
\* "hello": TRUE when it returns a hint for the text s.
HintsCallback(s) == s = <<97>>

\* What a refresh writes to the terminal, as the list of its pieces: "CR"
\* ("\r"), "EL" (erase to the right), "UP", "DOWN", "RIGHT" (cursor moves),
\* "NL", "PROMPT", "TEXT" (buffer content), "SGR" and "HINT".
\* refresh_show_hints: hints is TRUE when a hints callback is set
refresh_show_hints(l, hints) ==
    IF ~hints \/ PLen + Len(l.buf) >= Cols \/ ~HintsCallback(Str(l.buf)) THEN <<>>
    ELSE <<"SGR", "HINT", "SGR">>

\* refresh_singleline(clear, write): its output
refresh_singleline_out(l, hints, clear, write) ==
    (IF clear THEN <<"CR">> ELSE <<>>)
    \o (IF write THEN <<"PROMPT", "TEXT">> \o refresh_show_hints(l, hints) ELSE <<>>)
    \o (IF clear THEN <<"EL">> ELSE <<>>)
    \o (IF write THEN <<"CR", "RIGHT">> ELSE <<>>)

\* refresh_multiline(clear, write): its output
refresh_multiline_out(l, hints, clear, write) ==
    LET rpos  == (PLen + l.oldpos + Cols) \div Cols
        rows  == (PLen + Len(l.buf) + Cols - 1) \div Cols
        atend == l.pos # 0 /\ l.pos = Len(l.buf) /\ (l.pos + PLen) % Cols = 0
        rows2 == IF atend THEN rows + 1 ELSE rows
        rpos2 == (PLen + l.pos + Cols) \div Cols
        col   == (PLen + l.pos) % Cols
        ups   == IF l.maxrows > 1 THEN l.maxrows - 1 ELSE 0
    IN  (IF clear
         THEN (IF l.maxrows - rpos > 0 THEN <<"DOWN">> ELSE <<>>)
              \o [i \in 1..(3 * ups) |-> <<"CR", "EL", "UP">>[((i - 1) % 3) + 1]]
              \o <<"CR", "EL">>
         ELSE <<>>)
        \o (IF write
            THEN <<"PROMPT", "TEXT">> \o refresh_show_hints(l, hints)
                 \o (IF atend THEN <<"NL", "CR">> ELSE <<>>)
                 \o (IF rows2 - rpos2 > 0 THEN <<"UP">> ELSE <<>>)
                 \o (IF col # 0 THEN <<"CR", "RIGHT">> ELSE <<"CR">>)
            ELSE <<>>)

\* hide() that refreshes with write=True
hide_out_repaints(l, ml, hints) ==
    IF ml THEN refresh_multiline_out(l, hints, TRUE, TRUE)
    ELSE refresh_singleline_out(l, hints, TRUE, TRUE)

\* hide(): its output
hide_out(l, ml, hints) ==
    IF ml THEN refresh_multiline_out(l, hints, TRUE, FALSE)
    ELSE refresh_singleline_out(l, hints, TRUE, FALSE)

\* hide(): the line state it leaves (refresh_multiline saves the cursor
\* position whatever clear and write are)
hide(l, ml) == IF ml THEN [l EXCEPT !.oldpos = l.pos] ELSE l

\* show(): its output once raw mode is on
show_out(l, ml, hints) ==
    IF ml THEN refresh_multiline_out(l, hints, FALSE, TRUE)
    ELSE refresh_singleline_out(l, hints, FALSE, TRUE)

\* show(): the line state it leaves once raw mode is on
show(l, ml) == refresh_line(l, ml)

edit_delete(l, ml) ==
    IF Len(l.buf) > 0 /\ l.pos < Len(l.buf)
    THEN refresh_line([l EXCEPT !.buf = PopAt(l.buf, l.pos)], ml)
    ELSE l

edit_backspace(l, ml) ==
    IF l.pos > 0 /\ Len(l.buf) > 0
    THEN refresh_line([l EXCEPT !.buf = PopAt(l.buf, l.pos - 1), !.pos = l.pos - 1], ml)
    ELSE l

edit_insert(l, c, ml) ==
    refresh_line([l EXCEPT !.buf = InsertAt(l.buf, l.pos, c), !.pos = l.pos + 1], ml)

\* edit_swap that does not keep buf[pos - 1] in tmp
edit_swap_overwrites(l, ml) ==
    IF l.pos > 0 /\ l.pos < Len(l.buf)
    THEN LET b == l.buf
         IN  refresh_line([l EXCEPT !.buf = [b EXCEPT ![l.pos] = b[l.pos + 1]],
                                    !.pos = IF l.pos # Len(b) - 1 THEN l.pos + 1 ELSE l.pos], ml)
    ELSE l

edit_swap(l, ml) ==
    IF l.pos > 0 /\ l.pos < Len(l.buf)
    THEN LET b  == l.buf
             sw == [b EXCEPT ![l.pos] = b[l.pos + 1], ![l.pos + 1] = b[l.pos]]
         IN  refresh_line([l EXCEPT !.buf = sw,
                                    !.pos = IF l.pos # Len(b) - 1 THEN l.pos + 1 ELSE l.pos], ml)
    ELSE l

\* edit_set(s) with pos defaulted to the end; s is a str, never None here
edit_set(l, s, ml) == refresh_line([l EXCEPT !.buf = s, !.pos = Len(s)], ml)

\* edit_move_left without its "if self.pos > 0"
edit_move_left_unguarded(l, ml) == refresh_line([l EXCEPT !.pos = l.pos - 1], ml)

edit_move_left(l, ml) ==
    IF l.pos > 0 THEN refresh_line([l EXCEPT !.pos = l.pos - 1], ml) ELSE l

edit_move_right(l, ml) ==
    IF l.pos # Len(l.buf) THEN refresh_line([l EXCEPT !.pos = l.pos + 1], ml) ELSE l

edit_move_home(l, ml) ==
    IF l.pos # 0 THEN refresh_line([l EXCEPT !.pos = 0], ml) ELSE l

edit_move_end(l, ml) ==
    IF l.pos # Len(l.buf) THEN refresh_line([l EXCEPT !.pos = Len(l.buf)], ml) ELSE l

\* while pos > 0 and <cond>(buf[pos-1]): pos -= 1
RECURSIVE SkipLeft(_, _, _)
SkipLeft(buf, pos, space) ==
    IF pos > 0 /\ (IsSpace(buf[pos]) <=> space) THEN SkipLeft(buf, pos - 1, space) ELSE pos

\* while pos < len(buf) and <cond>(buf[pos]): pos += 1
RECURSIVE SkipRight(_, _, _)
SkipRight(buf, pos, space) ==
    IF pos < Len(buf) /\ (IsSpace(buf[pos + 1]) <=> space)
    THEN SkipRight(buf, pos + 1, space) ELSE pos

edit_move_word_left(l, ml) ==
    LET p == SkipLeft(l.buf, SkipLeft(l.buf, l.pos, TRUE), FALSE)
    IN  IF p # l.pos THEN refresh_line([l EXCEPT !.pos = p], ml) ELSE l

edit_move_word_right(l, ml) ==
    LET p == SkipRight(l.buf, SkipRight(l.buf, l.pos, FALSE), TRUE)
    IN  IF p # l.pos THEN refresh_line([l EXCEPT !.pos = p], ml) ELSE l

delete_line(l, ml) == refresh_line([l EXCEPT !.buf = <<>>, !.pos = 0], ml)

delete_to_end(l, ml) == refresh_line([l EXCEPT !.buf = Take(l.buf, l.pos)], ml)

\* while self.pos > 0 and (buf[pos-1] == " ") is blank: pos -= 1
RECURSIVE SkipBlank(_, _, _)
SkipBlank(buf, pos, blank) ==
    IF pos > 0 /\ ((buf[pos] = 32) <=> blank) THEN SkipBlank(buf, pos - 1, blank) ELSE pos

delete_prev_word(l, ml) ==
    LET p == SkipBlank(l.buf, SkipBlank(l.buf, l.pos, TRUE), FALSE)
    IN  refresh_line([l EXCEPT !.buf = Take(l.buf, p) \o Drop(l.buf, l.pos), !.pos = p], ml)

\* ---------------------------------------------------------------- history
\* history_add without "don't re-add the last entry"
history_add_no_dedup(h, maxlen, line) ==
    IF maxlen = 0 THEN h
    ELSE IF Len(h) = maxlen THEN Tail(h) \o <<line>>
    ELSE h \o <<line>>

\* history_add that drops the newest entry, not the first, of a full list
history_add_drops_newest(h, maxlen, line) ==
    IF maxlen = 0 THEN h
    ELSE IF Len(h) # 0 /\ line = h[Len(h)] THEN h
    ELSE IF Len(h) = maxlen THEN Take(h, Len(h) - 1) \o <<line>>
    ELSE h \o <<line>>

\* history_add(line): the list it leaves
history_add(h, maxlen, line) ==
    IF maxlen = 0 THEN h
    ELSE IF Len(h) # 0 /\ line = h[Len(h)] THEN h
    ELSE IF Len(h) = maxlen THEN Tail(h) \o <<line>>
    ELSE h \o <<line>>

\* a truncation that keeps the oldest entries
history_truncate_keeps_oldest(h, n) == Take(h, n)

\* history_set_maxlen(n): the list it leaves (n >= 0)
history_truncate(h, n) == IF Len(h) > n THEN Drop(h, Len(h) - n) ELSE h

\* history_set(idx, line): idx counts from the newest entry
history_set(h, idx, line) == [h EXCEPT ![Len(h) - idx] = line]

\* history_get(idx)
history_get(h, idx) == h[Len(h) - idx]

\* history_next(ls): the pair (history, ls) it leaves
history_next(h, l, ml) ==
    IF Len(h) = 0 THEN [h |-> h, l |-> l]
    ELSE LET h2  == history_set(h, l.history_idx, Str(l.buf))
             i   == l.history_idx - 1
             idx == IF i < 0 THEN 0 ELSE i
         IN  [h |-> h2,
              l |-> edit_set([l EXCEPT !.history_idx = idx], history_get(h2, idx), ml)]

\* history_prev without "update the current history entry with the line buffer"
history_prev_no_writeback(h, l, ml) ==
    IF Len(h) = 0 THEN [h |-> h, l |-> l]
    ELSE LET i   == l.history_idx + 1
             idx == IF i >= Len(h) THEN Len(h) - 1 ELSE i
         IN  [h |-> h,
              l |-> edit_set([l EXCEPT !.history_idx = idx], history_get(h, idx), ml)]

\* history_prev(ls): the pair (history, ls) it leaves
history_prev(h, l, ml) ==
    IF Len(h) = 0 THEN [h |-> h, l |-> l]
    ELSE LET h2  == history_set(h, l.history_idx, Str(l.buf))
             i   == l.history_idx + 1
             idx == IF i >= Len(h2) THEN Len(h2) - 1 ELSE i
         IN  [h |-> h2,
              l |-> edit_set([l EXCEPT !.history_idx = idx], history_get(h2, idx), ml)]

\* ------------------------------------------------------- the history file
\* "\n".join(lines)
RECURSIVE Join(_)
Join(lines) ==
    IF Len(lines) = 0 THEN <<>>
    ELSE IF Len(lines) = 1 THEN lines[1]
    ELSE lines[1] \o <<NL>> \o Join(Tail(lines))

\* history_save: f.write("%s\n" % "\n".join(self.history))
SaveText(h) == Join(h) \o <<NL>>

\* f.readlines(): the text cut after every "\n"; a last piece without one is
\* a line too
RECURSIVE ReadLines(_, _)
ReadLines(text, cur) ==
    IF Len(text) = 0 THEN (IF Len(cur) = 0 THEN <<>> ELSE <<cur>>)
    ELSE IF Head(text) = NL THEN <<cur \o <<NL>>>> \o ReadLines(Tail(text), <<>>)
    ELSE ReadLines(Tail(text), cur \o <<Head(text)>>)

\* str.lstrip()
RECURSIVE LStrip(_)
LStrip(s) == IF Len(s) > 0 /\ IsSpace(Head(s)) THEN LStrip(Tail(s)) ELSE s

\* str.rstrip()
RECURSIVE RStrip(_)
RStrip(s) == IF Len(s) > 0 /\ IsSpace(s[Len(s)]) THEN RStrip(Take(s, Len(s) - 1)) ELSE s

\* l.strip()
Strip(s) == LStrip(RStrip(s))

\* history_load of an existing file: [l.strip() for l in f.readlines()]
LoadLines(text) == LET x == ReadLines(text, <<>>) IN [i \in 1..Len(x) |-> Strip(x[i])]

\* ------------------------------------------------------------------ state
VARIABLES
    history,              \* linenoise.history: list of str, newest last
    history_maxlen,       \* linenoise.history_maxlen
    rawmode,              \* linenoise.rawmode
    mlmode,               \* linenoise.mlmode
    atexit_flag,          \* linenoise.atexit_flag
    orig_termios,         \* linenoise.orig_termios ("None" before the first snapshot)
    completion_callback,  \* TRUE when a completion callback is set
    hints_callback,       \* TRUE when a hints callback is set
    hotkey,               \* linenoise.hotkey (NoHotkey for None)
    ls,                   \* the line_state of the running session
    pc,                   \* where the caller of read() stands
    res,                  \* the EditResult of the last edit_feed
    ret,                  \* what read_raw returned
    inq,                  \* bytes waiting on the input fd
    ifd,                  \* the input fd: "open", "eof" (hung up), "error", "file" (no tty)
    tty,                  \* the terminal attributes in effect
    lc,                   \* complete_line: the list of completions
    cidx,                 \* complete_line: idx
    file,                 \* the history file
    log,                  \* bookkeeping: the lines given to history_add so far
    ref,                  \* bookkeeping: buffer and cursor of the reference editor
    navlog,               \* bookkeeping: what the session began with, presses and calls counted
    out                   \* what the last call wrote to the terminal

engine == <<history_maxlen, mlmode, completion_callback, hints_callback, hotkey>>
term == <<rawmode, atexit_flag, orig_termios, tty>>
session == <<ls, res, ret, inq, ifd, lc, cidx>>
store == <<file, log, ref, navlog, out>>
vars == <<history, engine, term, session, pc, store>>

\* ------------------------------------------------------------- raw mode
\* what enable_rawmode's flag changes make of the attributes
Raw(attr) == "raw"

\* os.isatty(fd): the input fd is a terminal, not a file or a pipe
isatty == ifd # "file"

\* enable_rawmode that does not look at os.isatty
enable_rawmode_any_fd ==
    [ok |-> TRUE, atexit_flag |-> TRUE, orig_termios |-> tty,
     tty |-> Raw(tty), rawmode |-> TRUE]

\* enable_rawmode(fd): whether it returns 0, and the terminal state it leaves
enable_rawmode ==
    IF ~isatty
    THEN [ok |-> FALSE, atexit_flag |-> atexit_flag, orig_termios |-> orig_termios,
          tty |-> tty, rawmode |-> rawmode]
    ELSE [ok |-> TRUE, atexit_flag |-> TRUE, orig_termios |-> tty,
          tty |-> Raw(tty), rawmode |-> TRUE]

\* ------------------------------------------------------------- callbacks
\* The host's completion callback, here the one of src/example.py with "a"
\* for "h": two candidates for a line that starts with "a", None otherwise.
CompletionCallback(s) ==
    IF Len(s) >= 1 /\ s[1] = 97 THEN << <<97, 97>>, <<97>> >> ELSE <<>>

\* ------------------------------------------------------------- edit_feed
\* _getc(ifd, _CHAR_TIMEOUT) for the i-th byte after the ones already read:
\* a waiting byte, "" at end of file, _KEY_NULL when select times out
TimedGetc(rest, i) ==
    IF i <= Len(rest) THEN rest[i] ELSE IF ifd = "eof" THEN EMPTY ELSE _KEY_NULL

\* would_block(ifd, _CHAR_TIMEOUT): select reports a hung-up fd readable
would_block(rest) == Len(rest) = 0 /\ ifd = "open"

\* no exception: the call returns
NoExc == ""

\* What one pass of the key handling returns: the line state and history it
\* leaves, the EditResult, the bytes left unread and the exception raised
\* (NoExc when it returns).
Out(l, h, r, left, exc) == [l |-> l, h |-> h, res |-> r, left |-> left, exc |-> exc]

\* self.history.pop(), then the result r
PopAndReturn(l, h, r, left) ==
    IF Len(h) = 0 THEN Out(l, h, MORE, left, "IndexError")
    ELSE Out(l, Take(h, Len(h) - 1), r, left, NoExc)

\* an escape sequence branch that reads two bytes and recognises nothing
EscapeSequence_ignored(rest, l, h) == Out(l, h, MORE, Drop(rest, 2), NoExc)

\* the escape sequence branch of edit_feed, after would_block said no
EscapeSequence(rest, l, h) ==
    LET s0 == TimedGetc(rest, 1)
        s1 == TimedGetc(rest, 2)
        s2 == TimedGetc(rest, 3)
        s3 == TimedGetc(rest, 4)
        s4 == TimedGetc(rest, 5)
        ext == s0 = 91 /\ s1 >= 48 /\ s1 <= 57
        reads == IF ext THEN (IF s2 = 59 THEN 5 ELSE 3) ELSE 2
        left == Drop(rest, reads)
        nav == IF s0 = 91 /\ ~ext /\ s1 = 65 THEN history_prev(h, l, mlmode)
               ELSE IF s0 = 91 /\ ~ext /\ s1 = 66 THEN history_next(h, l, mlmode)
               ELSE [h |-> h, l |-> l]
        l2 == IF s0 = 91
              THEN IF ext
                   THEN IF s2 = 126
                        THEN (IF s1 = 51 THEN edit_delete(l, mlmode) ELSE l)
                        ELSE IF s2 = 59 /\ s3 = 53
                        THEN (IF s4 = 67 THEN edit_move_word_right(l, mlmode)
                              ELSE IF s4 = 68 THEN edit_move_word_left(l, mlmode)
                              ELSE l)
                        ELSE l
                   ELSE IF s1 = 65 \/ s1 = 66 THEN nav.l
                   ELSE IF s1 = 67 THEN edit_move_right(l, mlmode)
                   ELSE IF s1 = 68 THEN edit_move_left(l, mlmode)
                   ELSE IF s1 = 72 THEN edit_move_home(l, mlmode)
                   ELSE IF s1 = 70 THEN edit_move_end(l, mlmode)
                   ELSE l
              ELSE IF s0 = 48
              THEN IF s1 = 72 THEN edit_move_home(l, mlmode)
                   ELSE IF s1 = 70 THEN edit_move_end(l, mlmode)
                   ELSE l
              ELSE l
    IN  Out(l2, nav.h, MORE, left, NoExc)

\* a key handling whose Enter takes the hint shown into the buffer
HandleKey_takes_hint(c, rest, l, h) ==
    IF c = _KEY_ENTER /\ hints_callback /\ HintsCallback(Str(l.buf))
    THEN PopAndReturn([l EXCEPT !.buf = l.buf \o <<35>>], h, ENTER, rest)
    ELSE Out(l, h, MORE, rest, NoExc)

\* edit_feed from "handle the key code" on: c is the key, rest the bytes
\* waiting behind it
HandleKey(c, rest, l, h) ==
    IF c = _KEY_ENTER \/ c = hotkey
    THEN LET l2 == IF hints_callback THEN refresh_line(l, mlmode) ELSE l
         IN  PopAndReturn(IF Len(h) = 0 THEN l ELSE l2, h,
                          IF c = _KEY_ENTER THEN ENTER ELSE HOTKEY, rest)
    ELSE IF c = _KEY_BS THEN Out(edit_backspace(l, mlmode), h, MORE, rest, NoExc)
    ELSE IF c = _KEY_ESC
    THEN IF would_block(rest) THEN PopAndReturn(l, h, ESCAPE, rest)
         ELSE EscapeSequence(rest, l, h)
    ELSE IF c = _KEY_CTRL_A THEN Out(edit_move_home(l, mlmode), h, MORE, rest, NoExc)
    ELSE IF c = _KEY_CTRL_B THEN Out(edit_move_left(l, mlmode), h, MORE, rest, NoExc)
    ELSE IF c = _KEY_CTRL_C THEN Out(l, h, EOF_OR_ERROR, rest, NoExc)
    ELSE IF c = _KEY_CTRL_D
    THEN IF Len(l.buf) # 0 THEN Out(edit_delete(l, mlmode), h, MORE, rest, NoExc)
         ELSE PopAndReturn(l, h, EOF_OR_ERROR, rest)
    ELSE IF c = _KEY_CTRL_E THEN Out(edit_move_end(l, mlmode), h, MORE, rest, NoExc)
    ELSE IF c = _KEY_CTRL_F THEN Out(edit_move_right(l, mlmode), h, MORE, rest, NoExc)
    ELSE IF c = _KEY_CTRL_H THEN Out(edit_backspace(l, mlmode), h, MORE, rest, NoExc)
    ELSE IF c = _KEY_CTRL_K THEN Out(delete_to_end(l, mlmode), h, MORE, rest, NoExc)
    ELSE IF c = _KEY_CTRL_L THEN Out(refresh_line(l, mlmode), h, MORE, rest, NoExc)
    ELSE IF c = _KEY_CTRL_N
    THEN LET n == history_next(h, l, mlmode) IN Out(n.l, n.h, MORE, rest, NoExc)
    ELSE IF c = _KEY_CTRL_P
    THEN LET n == history_prev(h, l, mlmode) IN Out(n.l, n.h, MORE, rest, NoExc)
    ELSE IF c = _KEY_CTRL_T THEN Out(edit_swap(l, mlmode), h, MORE, rest, NoExc)
    ELSE IF c = _KEY_CTRL_U THEN Out(delete_line(l, mlmode), h, MORE, rest, NoExc)
    ELSE IF c = _KEY_CTRL_W THEN Out(delete_prev_word(l, mlmode), h, MORE, rest, NoExc)
    ELSE Out(edit_insert(l, c, mlmode), h, MORE, rest, NoExc)

\* --------------------------------------------------------------- inputs
\* What the user types: a letter, a blank (a space, or a Tab where no
\* completion callback takes it: edit_feed then inserts it like any
\* character), and the hotkey when one is set.
Printable ==
    {97} \cup (IF completion_callback THEN {32} ELSE {_KEY_TAB})
         \cup (IF hotkey = NoHotkey THEN {} ELSE {hotkey})

ControlKeys ==
    {_KEY_NULL, _KEY_CTRL_A, _KEY_CTRL_B, _KEY_CTRL_C, _KEY_CTRL_D, _KEY_CTRL_E,
     _KEY_CTRL_F, _KEY_CTRL_H, _KEY_CTRL_K, _KEY_CTRL_L, _KEY_ENTER,
     _KEY_CTRL_N, _KEY_CTRL_P, _KEY_CTRL_T, _KEY_CTRL_U, _KEY_CTRL_W, _KEY_ESC,
     _KEY_BS} \cup (IF completion_callback THEN {_KEY_TAB} ELSE {})

\* the escape sequences a terminal sends in one burst
Sequences ==
    { <<27, 91, c>> : c \in {65, 66, 67, 68, 72, 70} } \cup
    { <<27, 91, 51, 126>>, <<27, 91, 49, 59, 53, 67>>, <<27, 91, 49, 59, 53, 68>>,
      <<27, 48, 72>>, <<27, 48, 70>>, <<27, 79, 72>>, <<27, 79, 70>> }

\* One key press: the bytes it puts on the input fd. Characters that are
\* inserted stop once the buffer holds MaxBuf items.
Keys(l) ==
    { <<c>> : c \in ControlKeys } \cup Sequences \cup
    (IF Len(l.buf) < MaxBuf THEN { <<c>> : c \in Printable } ELSE {})

\* What a blocking _getc finds: the bytes waiting already, else the next key
\* press, else no bytes because the terminal has hung up ("eof") or the read
\* fails ("error"). A hung-up terminal is read until the buffer holds MaxBuf
\* items.
Arrivals(l) ==
    IF Len(inq) > 0 THEN {[bytes |-> inq, ifd |-> ifd]}
    ELSE IF ifd = "open"
    THEN { [bytes |-> k, ifd |-> "open"] : k \in Keys(l) } \cup
         (IF Len(l.buf) < MaxBuf THEN {[bytes |-> <<>>, ifd |-> "eof"]} ELSE {}) \cup
         {[bytes |-> <<>>, ifd |-> "error"]}
    ELSE IF ifd = "eof" /\ Len(l.buf) >= MaxBuf THEN {}
    ELSE {[bytes |-> <<>>, ifd |-> ifd]}

InitTexts == {<<>>, <<97>>}

\* the history lengths the host of an editing session asks for
SessionMaxlens == {0, 1, 2}

\* the lines a host gives to history_add directly
HistLines == {<<>>, <<97>>, <<98>>, <<97, 32>>}

Pending == [kind |-> "pending", val |-> <<>>]
RetNone == [kind |-> "None", val |-> <<>>]
RetStr(s) == [kind |-> "str", val |-> s]
\* read_raw does not return: the exception exc leaves it
Raised(exc) == [kind |-> exc, val |-> <<>>]

NoFile == [exists |-> FALSE, text |-> <<>>]

\* the reference editor before any key
NoRef == [buf |-> <<>>, pos |-> 0]

\* nothing noted: hist is the history before edit_start, text and cands the
\* buffer text and the candidates at the first Tab, n the presses counted
NoNav == [hist |-> <<>>, text |-> <<>>, cands |-> <<>>, n |-> 0]

\* The host's configuration calls before its first read(): set_multiline,
\* set_completion_callback, set_hints_callback, set_hotkey.
Configs ==
    { [ml |-> FALSE, completion |-> FALSE, hints |-> FALSE, hotkey |-> NoHotkey],
      [ml |-> FALSE, completion |-> TRUE,  hints |-> TRUE,  hotkey |-> 63],
      [ml |-> TRUE,  completion |-> TRUE,  hints |-> FALSE, hotkey |-> NoHotkey] }

\* ----------------------------------------------------------------- Init
\* The engine after construction and the host's configuration calls
\* (Configs, history_set_maxlen), before the first read().
Init ==
    /\ history = <<>>
    /\ history_maxlen \in SessionMaxlens
    /\ rawmode = FALSE
    /\ atexit_flag = FALSE
    /\ orig_termios = "None"
    /\ \E c \in Configs :
         /\ mlmode = c.ml
         /\ completion_callback = c.completion
         /\ hints_callback = c.hints
         /\ hotkey = c.hotkey
    /\ ls = NewLs
    /\ pc = "idle"
    /\ res = MORE
    /\ ret = Pending
    /\ inq = <<>>
    /\ ifd = "open"
    /\ tty = "cooked"
    /\ lc = <<>>
    /\ cidx = 0
    /\ file = NoFile
    /\ log = [adds |-> <<>>, clean |-> TRUE]
    /\ ref = NoRef
    /\ navlog = NoNav
    /\ out = <<>>

\* -------------------------------------------------------------- actions
\* read() -> read_raw -> edit_blocking -> edit_start(prompt, s)
ReadStart ==
    /\ pc = "idle"
    /\ \E s \in InitTexts :
         LET l == edit_set(NewLs, s, mlmode)
         IN  /\ ls' = l
             /\ history' = history_add(history, history_maxlen, Str(l.buf))
    \* enable_rawmode
    /\ atexit_flag' = TRUE
    /\ orig_termios' = tty
    /\ tty' = Raw(tty)
    /\ rawmode' = TRUE
    /\ res' = MORE
    /\ ret' = Pending
    /\ pc' = "edit"
    /\ UNCHANGED <<engine, inq, ifd, lc, cidx, store>>

\* disable_rawmode: the (rawmode, tty) it leaves
disable_rawmode ==
    IF rawmode THEN [rawmode |-> FALSE, tty |-> orig_termios]
    ELSE [rawmode |-> rawmode, tty |-> tty]

\* read_raw that returns the text alone for HOTKEY
read_raw_drops_hotkey(r, l) ==
    IF r = ENTER \/ r = HOTKEY THEN RetStr(Str(l.buf))
    ELSE IF r = ESCAPE THEN RetStr(<<>>)
    ELSE RetNone

\* read_raw: the value returned for an EditResult
read_raw(r, l) ==
    IF r = ENTER THEN RetStr(Str(l.buf))
    ELSE IF r = HOTKEY
    THEN RetStr(Str(l.buf) \o (IF hotkey # NoHotkey THEN <<hotkey>> ELSE <<>>))
    ELSE IF r = ESCAPE THEN RetStr(<<>>)
    ELSE RetNone

\* edit_feed returns r with line state l to edit_blocking. MORE: the loop
\* calls edit_feed again. Any other result: edit_stop, and read_raw returns
\* (of the line_state, which dies with the call, buf and pos are kept). An
\* exception leaves edit_blocking and read_raw at once.
Returns(r, l, exc) ==
    /\ res' = r
    /\ IF exc # NoExc
       THEN pc' = "raised" /\ ls' = NewLs /\ ret' = Raised(exc) /\ UNCHANGED term
       ELSE IF r = MORE
       THEN pc' = "edit" /\ ls' = l /\ UNCHANGED <<ret, term>>
       ELSE /\ pc' = "returned"
            /\ ls' = [NewLs EXCEPT !.buf = l.buf, !.pos = l.pos]
            /\ ret' = read_raw(r, l)
            /\ rawmode' = disable_rawmode.rawmode
            /\ tty' = disable_rawmode.tty
            /\ UNCHANGED <<atexit_flag, orig_termios>>

\* the state after one pass of the key handling
Handled(d) ==
    /\ history' = d.h
    /\ inq' = d.left
    /\ Returns(d.res, d.l, d.exc)

\* complete_line without "restore the line buffer": the shown candidate stays
Preview_not_restored(l, cands, i) ==
    IF i < Len(cands)
    THEN refresh_line([l EXCEPT !.buf = cands[i + 1], !.pos = Len(cands[i + 1])], mlmode)
    ELSE refresh_line(l, mlmode)

\* complete_line: show candidate i of lc, or the original line for i = len(lc)
Preview(l, cands, i) ==
    IF i < Len(cands)
    THEN LET shown == refresh_line([l EXCEPT !.buf = cands[i + 1],
                                             !.pos = Len(cands[i + 1])], mlmode)
         IN  [shown EXCEPT !.buf = l.buf, !.pos = l.pos]
    ELSE refresh_line(l, mlmode)

\* complete_line: "update the buffer and return"
Commit(l, cands, i) ==
    IF i < Len(cands) THEN [l EXCEPT !.buf = cands[i + 1], !.pos = Len(cands[i + 1])]
    ELSE l

\* edit_feed when its blocking _getc finds the arrival a
Feed(a) ==
         LET avail == a.bytes
             c     == IF Len(avail) = 0 THEN EMPTY ELSE Head(avail)
             rest  == IF Len(avail) = 0 THEN <<>> ELSE Tail(avail)
         IN  /\ ifd' = a.ifd
             /\ IF Len(avail) = 0 /\ a.ifd = "error"
                THEN \* os.read raises OSError
                     /\ Returns(res, ls, "OSError")
                     /\ UNCHANGED <<history, inq, lc, cidx>>
                ELSE IF c = _KEY_NULL
                THEN /\ Returns(EOF_OR_ERROR, ls, NoExc)
                     /\ inq' = rest
                     /\ UNCHANGED <<history, lc, cidx>>
                ELSE IF c = _KEY_TAB /\ completion_callback
                THEN \/ \* the completion callback raises
                        /\ Returns(res, ls, "CallbackError")
                        /\ inq' = rest
                        /\ UNCHANGED <<history, lc, cidx>>
                     \/ LET cands == CompletionCallback(Str(ls.buf))
                        IN  /\ inq' = rest
                            /\ UNCHANGED <<history, res, ret, term>>
                            /\ IF Len(cands) = 0
                               THEN \* beep, c = _KEY_NULL: return MORE
                                    /\ pc' = "edit"
                                    /\ UNCHANGED <<ls, lc, cidx>>
                               ELSE /\ pc' = "complete"
                                    /\ lc' = cands
                                    /\ cidx' = 0
                                    /\ ls' = Preview(ls, cands, 0)
                ELSE /\ Handled(HandleKey(c, rest, ls, history))
                     /\ UNCHANGED <<lc, cidx>>

\* One call of edit_feed by edit_blocking's loop, up to its return or to the
\* blocking read inside complete_line.
EditFeed ==
    /\ pc = "edit"
    /\ \E a \in Arrivals(ls) : Feed(a)
    /\ UNCHANGED <<engine, store>>

\* a complete_line that pushes the candidate it shows next to the history
CFeed_pushes(a) ==
    LET i == (cidx + 1) % (Len(lc) + 1)
    IN  /\ a.bytes = <<_KEY_TAB>>
        /\ ifd' = a.ifd
        /\ cidx' = i
        /\ ls' = Preview(ls, lc, i)
        /\ history' = history_add(history, history_maxlen, Str(Commit(ls, lc, i).buf))
        /\ UNCHANGED <<res, ret, term, lc, pc, inq>>

\* edit_feed inside complete_line when its blocking _getc finds the arrival a
CFeed(a) ==
         LET avail == a.bytes
             c     == IF Len(avail) = 0 THEN EMPTY ELSE Head(avail)
             rest  == IF Len(avail) = 0 THEN <<>> ELSE Tail(avail)
         IN  /\ ifd' = a.ifd
             /\ IF Len(avail) = 0 /\ a.ifd = "error"
                THEN /\ Returns(res, ls, "OSError")
                     /\ UNCHANGED <<history, inq, lc, cidx>>
                ELSE IF c = _KEY_NULL
                THEN \* "error on read": stop, edit_feed returns MORE
                     /\ Returns(MORE, ls, NoExc)
                     /\ inq' = rest
                     /\ lc' = <<>>
                     /\ cidx' = 0
                     /\ UNCHANGED history
                ELSE IF c = _KEY_TAB
                THEN LET i == (cidx + 1) % (Len(lc) + 1)
                     IN  /\ cidx' = i
                         /\ ls' = Preview(ls, lc, i)
                         /\ inq' = rest
                         /\ UNCHANGED <<history, res, ret, term, lc, pc>>
                ELSE IF c = _KEY_ESC /\ would_block(rest)
                THEN \* a single escape: show the original line again
                     /\ Returns(MORE, IF cidx < Len(lc) THEN refresh_line(ls, mlmode) ELSE ls,
                                NoExc)
                     /\ inq' = rest
                     /\ lc' = <<>>
                     /\ cidx' = 0
                     /\ UNCHANGED history
                ELSE /\ Handled(HandleKey(c, rest, Commit(ls, lc, cidx), history))
                     /\ lc' = <<>>
                     /\ cidx' = 0

\* edit_feed inside complete_line: one turn of its loop from the blocking
\* _getc on, and the rest of edit_feed when the loop stops.
CompleteFeed ==
    /\ pc = "complete"
    /\ \E a \in Arrivals(ls) : CFeed(a)
    /\ UNCHANGED <<engine, store>>

\* the state of the caller between two reads
BackToIdle ==
    /\ pc' = "idle"
    /\ ls' = NewLs
    /\ res' = MORE
    /\ ret' = Pending
    /\ UNCHANGED <<engine, term, inq, ifd, lc, cidx, store>>

\* the host's loop (src/example.py): a non-empty line is added to the history
HostAdd ==
    /\ pc = "returned"
    /\ res = ENTER
    /\ ret.kind = "str"
    /\ Len(ret.val) > 0
    /\ history' = history_add(history, history_maxlen, ret.val)
    /\ BackToIdle

\* the host's loop: nothing is added
HostSkip ==
    /\ pc = "returned"
    /\ UNCHANGED history
    /\ BackToIdle

\* history_set_maxlen(n)
history_set_maxlen(n) ==
    IF n < 0 THEN UNCHANGED <<history, history_maxlen>>
    ELSE /\ history_maxlen' = n
         /\ history' = history_truncate(history, n)

\* history_set_maxlen(n) between two reads
HistorySetMaxlen ==
    /\ pc = "idle"
    /\ \E n \in {-1} \cup SessionMaxlens : history_set_maxlen(n)
    /\ UNCHANGED <<mlmode, completion_callback, hints_callback, hotkey, term, session, pc, store>>

\* The interpreter exits, on an uncaught exception or at the end of the
\* host's loop: the atexit handler runs if it was registered.
ProcessExit ==
    /\ pc \in {"raised", "idle"}
    /\ pc' = "exited"
    /\ IF atexit_flag
       THEN rawmode' = disable_rawmode.rawmode /\ tty' = disable_rawmode.tty
       ELSE UNCHANGED <<rawmode, tty>>
    /\ UNCHANGED <<history, engine, atexit_flag, orig_termios, session, store>>

Next ==
    \/ ReadStart
    \/ EditFeed
    \/ CompleteFeed
    \/ HostAdd
    \/ HostSkip
    \/ HistorySetMaxlen
    \/ ProcessExit

Spec == Init /\ [][Next]_vars

\* ------------------------------------------------- the history store alone
\* A host that only uses the history store: history_add, history_set_maxlen,
\* history_save and history_load on one file, with no editing session.
InitHist ==
    /\ history = <<>>
    /\ history_maxlen \in 0..MaxHist
    /\ rawmode = FALSE
    /\ atexit_flag = FALSE
    /\ orig_termios = "None"
    /\ mlmode = FALSE
    /\ completion_callback = FALSE
    /\ hints_callback = FALSE
    /\ hotkey = NoHotkey
    /\ ls = NewLs
    /\ pc = "idle"
    /\ res = MORE
    /\ ret = Pending
    /\ inq = <<>>
    /\ ifd = "open"
    /\ tty = "cooked"
    /\ lc = <<>>
    /\ cidx = 0
    /\ file = NoFile
    /\ log = [adds |-> <<>>, clean |-> TRUE]
    /\ ref = NoRef
    /\ navlog = NoNav
    /\ out = <<>>

\* history_add(line); the call is logged, MaxAdds calls at most
HistoryAdd ==
    /\ Len(log.adds) < MaxAdds
    /\ \E line \in HistLines :
         /\ history' = history_add(history, history_maxlen, line)
         /\ log' = [log EXCEPT !.adds = Append(log.adds, line)]
    /\ UNCHANGED <<engine, term, session, pc, file, ref, navlog, out>>

\* history_set_maxlen(n)
HistoryResize ==
    /\ \E n \in (-1)..MaxHist :
         /\ history_set_maxlen(n)
         /\ log' = [log EXCEPT !.clean = log.clean /\ n < 0]
    /\ UNCHANGED <<mlmode, completion_callback, hints_callback, hotkey, term, session, pc, file, ref, navlog, out>>

\* history_save(fname)
HistorySave ==
    /\ file' = [exists |-> TRUE, text |-> SaveText(history)]
    /\ UNCHANGED <<history, engine, term, session, pc, log, ref, navlog, out>>

\* history_load(fname): a missing file leaves the history empty
HistoryLoad ==
    /\ history' = IF file.exists THEN LoadLines(file.text) ELSE <<>>
    /\ log' = [log EXCEPT !.clean = FALSE]
    /\ UNCHANGED <<engine, term, session, pc, file, ref, navlog, out>>

NextHist ==
    \/ HistoryAdd
    \/ HistoryResize
    \/ HistorySave
    \/ HistoryLoad

SpecHist == InitHist /\ [][NextHist]_vars

\* ------------------------------------------- sessions of plain editing keys
\* read() on an engine with no callbacks, no hotkey, single-line mode and an
\* empty history, whose user types only characters, Backspace, Ctrl-A,
\* Ctrl-E and Enter. A reference editor follows the keys.
InitRef ==
    /\ history = <<>>
    /\ history_maxlen \in SessionMaxlens
    /\ rawmode = FALSE
    /\ atexit_flag = FALSE
    /\ orig_termios = "None"
    /\ mlmode = FALSE
    /\ completion_callback = FALSE
    /\ hints_callback = FALSE
    /\ hotkey = NoHotkey
    /\ ls = NewLs
    /\ pc = "idle"
    /\ res = MORE
    /\ ret = Pending
    /\ inq = <<>>
    /\ ifd = "open"
    /\ tty = "cooked"
    /\ lc = <<>>
    /\ cidx = 0
    /\ file = NoFile
    /\ log = [adds |-> <<>>, clean |-> TRUE]
    /\ ref = NoRef
    /\ navlog = NoNav
    /\ out = <<>>

RefPrintable == {97, 98}

\* the keys of these sessions; typing stops at MaxRef characters
RefKeys(l) ==
    {_KEY_BS, _KEY_CTRL_A, _KEY_CTRL_E, _KEY_ENTER} \cup
    (IF Len(l.buf) < MaxRef THEN RefPrintable ELSE {})

\* The reference editor: insert at the cursor, delete the character left of
\* the cursor, cursor to start, cursor to end; Enter changes nothing.
RefEdit(r, c) ==
    IF c \in RefPrintable
    THEN [buf |-> SubSeq(r.buf, 1, r.pos) \o <<c>> \o SubSeq(r.buf, r.pos + 1, Len(r.buf)),
          pos |-> r.pos + 1]
    ELSE IF c = 127
    THEN IF r.pos = 0 THEN r
         ELSE [buf |-> SubSeq(r.buf, 1, r.pos - 1) \o SubSeq(r.buf, r.pos + 1, Len(r.buf)),
               pos |-> r.pos - 1]
    ELSE IF c = 1 THEN [r EXCEPT !.pos = 0]
    ELSE IF c = 5 THEN [r EXCEPT !.pos = Len(r.buf)]
    ELSE r

\* read() with the default (empty) initial text
RefStart ==
    /\ ReadStart
    /\ Len(ls'.buf) = 0

\* one key: edit_feed handles it, the reference editor follows
RefFeed ==
    /\ pc = "edit"
    /\ \E c \in RefKeys(ls) :
         /\ Feed([bytes |-> <<c>>, ifd |-> "open"])
         /\ ref' = RefEdit(ref, c)
    /\ UNCHANGED <<engine, file, log, navlog, out>>

\* the caller drops the line and reads again
RefAgain ==
    /\ pc = "returned"
    /\ pc' = "idle"
    /\ ls' = NewLs
    /\ res' = MORE
    /\ ret' = Pending
    /\ ref' = NoRef
    /\ UNCHANGED <<history, engine, term, inq, ifd, lc, cidx, file, log, navlog, out>>

NextRef ==
    \/ RefStart
    \/ RefFeed
    \/ RefAgain

SpecRef == InitRef /\ [][NextRef]_vars

\* ------------------------------------------------ sessions of Up presses
\* read() with an empty initial text on an engine whose history the host has
\* filled with history_add; the user presses Up some times, then Enter.
NavLines == {<<97>>, <<98>>}

\* what history_add calls with non-empty lines leave: 1 to MaxHist entries,
\* no two adjacent ones equal
NavHists ==
    { h \in UNION { [1..n -> NavLines] : n \in 1..MaxHist } :
        \A i \in 1..(Len(h) - 1) : h[i] # h[i + 1] }

InitNav ==
    /\ history \in NavHists
    /\ history_maxlen \in Len(history)..(MaxHist + 1)
    /\ rawmode = FALSE
    /\ atexit_flag = FALSE
    /\ orig_termios = "None"
    /\ \E c \in Configs :
         /\ mlmode = c.ml
         /\ completion_callback = c.completion
         /\ hints_callback = c.hints
         /\ hotkey = c.hotkey
    /\ ls = NewLs
    /\ pc = "idle"
    /\ res = MORE
    /\ ret = Pending
    /\ inq = <<>>
    /\ ifd = "open"
    /\ tty = "cooked"
    /\ lc = <<>>
    /\ cidx = 0
    /\ file = NoFile
    /\ log = [adds |-> <<>>, clean |-> TRUE]
    /\ ref = NoRef
    /\ navlog = [NoNav EXCEPT !.hist = history]
    /\ out = <<>>

\* read() with the default (empty) initial text
NavStart ==
    /\ ReadStart
    /\ Len(ls'.buf) = 0

\* Up: the arrow key (ESC [ A) or Ctrl-P
NavUp ==
    /\ pc = "edit"
    /\ navlog.n < MaxUps
    /\ \E k \in {<<27, 91, 65>>, <<_KEY_CTRL_P>>} : Feed([bytes |-> k, ifd |-> "open"])
    /\ navlog' = [navlog EXCEPT !.n = navlog.n + 1]
    /\ UNCHANGED <<engine, file, log, ref, out>>

NavEnter ==
    /\ pc = "edit"
    /\ Feed([bytes |-> <<_KEY_ENTER>>, ifd |-> "open"])
    /\ UNCHANGED <<engine, store>>

\* the caller drops the line and reads again from the history as it is now
NavAgain ==
    /\ pc = "returned"
    /\ pc' = "idle"
    /\ ls' = NewLs
    /\ res' = MORE
    /\ ret' = Pending
    /\ navlog' = [NoNav EXCEPT !.hist = history]
    /\ UNCHANGED <<history, engine, term, inq, ifd, lc, cidx, file, log, ref, out>>

NextNav ==
    \/ NavStart
    \/ NavUp
    \/ NavEnter
    \/ NavAgain

SpecNav == InitNav /\ [][NextNav]_vars

\* ------------------------------------------------ sessions of Tab presses
\* read() on an engine with a completion callback; the user types, presses
\* Tab some times, then Enter.
InitTab ==
    /\ history = <<>>
    /\ history_maxlen \in SessionMaxlens
    /\ rawmode = FALSE
    /\ atexit_flag = FALSE
    /\ orig_termios = "None"
    /\ \E c \in { x \in Configs : x.completion } :
         /\ mlmode = c.ml
         /\ completion_callback = c.completion
         /\ hints_callback = c.hints
         /\ hotkey = c.hotkey
    /\ ls = NewLs
    /\ pc = "idle"
    /\ res = MORE
    /\ ret = Pending
    /\ inq = <<>>
    /\ ifd = "open"
    /\ tty = "cooked"
    /\ lc = <<>>
    /\ cidx = 0
    /\ file = NoFile
    /\ log = [adds |-> <<>>, clean |-> TRUE]
    /\ ref = NoRef
    /\ navlog = NoNav
    /\ out = <<>>

\* a character typed before the first Tab
TabType ==
    /\ pc = "edit"
    /\ navlog.n = 0
    /\ Len(ls.buf) < MaxBuf
    /\ \E c \in {97, 32} : Feed([bytes |-> <<c>>, ifd |-> "open"])
    /\ UNCHANGED <<engine, store>>

\* Tab: the first one calls the completion callback, which returns its list;
\* the next ones step through the candidates
TabTab ==
    /\ \/ /\ pc = "edit"
          /\ navlog.n = 0
          /\ Feed([bytes |-> <<_KEY_TAB>>, ifd |-> "open"])
          /\ pc' # "raised"
          /\ navlog' = IF pc' = "complete"
                        THEN [navlog EXCEPT !.text = Str(ls.buf), !.cands = lc', !.n = 1]
                        ELSE navlog
       \/ /\ pc = "complete"
          /\ navlog.n < MaxTabs
          /\ CFeed([bytes |-> <<_KEY_TAB>>, ifd |-> "open"])
          /\ navlog' = [navlog EXCEPT !.n = navlog.n + 1]
    /\ UNCHANGED <<engine, file, log, ref, out>>

TabEnter ==
    /\ \/ pc = "edit" /\ Feed([bytes |-> <<_KEY_ENTER>>, ifd |-> "open"])
       \/ pc = "complete" /\ CFeed([bytes |-> <<_KEY_ENTER>>, ifd |-> "open"])
    /\ UNCHANGED <<engine, store>>

\* the caller drops the line and reads again
TabAgain ==
    /\ pc = "returned"
    /\ pc' = "idle"
    /\ ls' = NewLs
    /\ res' = MORE
    /\ ret' = Pending
    /\ navlog' = NoNav
    /\ UNCHANGED <<history, engine, term, inq, ifd, lc, cidx, file, log, ref, out>>

NextTab ==
    \/ ReadStart
    \/ TabType
    \/ TabTab
    \/ TabEnter
    \/ TabAgain

SpecTab == InitTab /\ [][NextTab]_vars

\* ---------------------------------------------- the non-blocking interface
\* A host that drives a session itself: enable_rawmode, disable_rawmode,
\* edit_start, edit_feed, edit_stop, hide, show and loop, in any order, on
\* an input fd that is a terminal or is not.
InitApi ==
    /\ history = <<>>
    /\ history_maxlen \in SessionMaxlens
    /\ rawmode = FALSE
    /\ atexit_flag = FALSE
    /\ orig_termios = "None"
    /\ \E c \in Configs :
         /\ mlmode = c.ml
         /\ completion_callback = c.completion
         /\ hints_callback = c.hints
         /\ hotkey = c.hotkey
    /\ ls = NewLs
    /\ pc = "idle"
    /\ res = MORE
    /\ ret = Pending
    /\ inq = <<>>
    /\ ifd \in {"open", "file"}
    /\ tty = "cooked"
    /\ lc = <<>>
    /\ cidx = 0
    /\ file = NoFile
    /\ log = [adds |-> <<>>, clean |-> TRUE]
    /\ ref = NoRef
    /\ navlog = NoNav
    /\ out = <<>>

\* the terminal state a call of enable_rawmode or disable_rawmode leaves
SetTerm(t) ==
    /\ rawmode' = t.rawmode
    /\ tty' = t.tty
    /\ atexit_flag' = t.atexit_flag
    /\ orig_termios' = t.orig_termios

\* disable_rawmode leaves the snapshot and the exit handler alone
Disabled ==
    [rawmode |-> disable_rawmode.rawmode, tty |-> disable_rawmode.tty,
     atexit_flag |-> atexit_flag, orig_termios |-> orig_termios]

\* the host calls enable_rawmode(ifd)
ApiEnable ==
    /\ pc \in {"idle", "edit", "hidden"}
    /\ SetTerm(enable_rawmode)
    /\ UNCHANGED <<history, engine, session, pc, store>>

\* the host calls disable_rawmode(ifd)
ApiDisable ==
    /\ pc \in {"idle", "edit", "hidden"}
    /\ SetTerm(Disabled)
    /\ UNCHANGED <<history, engine, session, pc, store>>

\* loop(fn): raw mode on, fn and the exit key polled until one of them ends
\* the loop, raw mode off
ApiLoop ==
    /\ pc \in {"idle", "hidden"}
    /\ LET e == enable_rawmode
       IN  IF ~e.ok THEN UNCHANGED term
           ELSE /\ atexit_flag' = e.atexit_flag
                /\ orig_termios' = e.orig_termios
                /\ tty' = e.orig_termios
                /\ rawmode' = FALSE
    /\ UNCHANGED <<history, engine, session, pc, store>>

\* what edit_start writes: the refresh of edit_set
edit_start_out(l, ml, hints) ==
    IF ml THEN refresh_multiline_out(l, hints, TRUE, TRUE)
    ELSE refresh_singleline_out(l, hints, TRUE, TRUE)

\* edit_start(prompt, s, ifd): None ("nostate") when raw mode cannot be entered
ApiStart ==
    /\ pc = "idle"
    /\ LET e == enable_rawmode
       IN  IF ~e.ok
           THEN /\ pc' = "nostate"
                /\ out' = <<>>
                /\ UNCHANGED <<history, term, ls>>
           ELSE \E s \in InitTexts :
                  LET l0 == [NewLs EXCEPT !.buf = s, !.pos = Len(s)]
                      l  == edit_set(NewLs, s, mlmode)
                  IN  /\ ls' = l
                      /\ out' = edit_start_out(l0, mlmode, hints_callback)
                      /\ history' = history_add(history, history_maxlen, Str(l.buf))
                      /\ SetTerm(e)
                      /\ pc' = "edit"
    /\ res' = MORE
    /\ ret' = Pending
    /\ UNCHANGED <<engine, inq, ifd, lc, cidx, file, log, ref, navlog>>

\* the keys the host's terminal delivers in these sessions
ApiKeys(l) ==
    {<<_KEY_CTRL_B>>, <<_KEY_ENTER>>, <<_KEY_CTRL_C>>}
    \cup (IF Len(l.buf) < MaxBuf THEN {<<97>>} ELSE {})

\* edit_feed(ls) when a key has arrived; on a result other than MORE the
\* host calls edit_stop
ApiFeed ==
    /\ pc = "edit"
    /\ \E k \in ApiKeys(ls) : Feed([bytes |-> k, ifd |-> ifd])
    /\ UNCHANGED <<engine, store>>

\* edit_blocking and read_raw after edit_start returned None
ApiFeedNone ==
    /\ pc = "nostate"
    /\ res' = EOF_OR_ERROR
    /\ ret' = read_raw(EOF_OR_ERROR, ls)
    /\ pc' = "returned"
    /\ UNCHANGED <<history, engine, term, ls, inq, ifd, lc, cidx, store>>

\* ls.hide()
ApiHide ==
    /\ pc = "edit"
    /\ ls' = hide(ls, mlmode)
    /\ out' = hide_out(ls, mlmode, hints_callback)
    /\ SetTerm(Disabled)
    /\ pc' = "hidden"
    /\ UNCHANGED <<history, engine, res, ret, inq, ifd, lc, cidx, file, log, ref, navlog>>

\* ls.show()
ApiShow ==
    /\ pc = "hidden"
    /\ LET e == enable_rawmode
       IN  IF ~e.ok THEN UNCHANGED <<term, ls, out, pc>>
           ELSE /\ SetTerm(e)
                /\ ls' = show(ls, mlmode)
                /\ out' = show_out(ls, mlmode, hints_callback)
                /\ pc' = "edit"
    /\ UNCHANGED <<history, engine, res, ret, inq, ifd, lc, cidx, file, log, ref, navlog>>

\* edit_stop(ls) on a session the host gives up
ApiStop ==
    /\ pc \in {"edit", "hidden"}
    /\ SetTerm(Disabled)
    /\ out' = <<"CR", "NL">>
    /\ pc' = "idle"
    /\ ls' = NewLs
    /\ res' = MORE
    /\ ret' = Pending
    /\ UNCHANGED <<history, engine, inq, ifd, lc, cidx, file, log, ref, navlog>>

NextApi ==
    \/ ApiEnable
    \/ ApiDisable
    \/ ApiLoop
    \/ ApiStart
    \/ ApiFeed
    \/ ApiFeedNone
    \/ ApiHide
    \/ ApiShow
    \/ ApiStop
    \/ HostSkip

SpecApi == InitApi /\ [][NextApi]_vars

\* ------------------------------------- sessions with unknown sequences
\* Escape sequences outside the table of edit_feed, each sent in one burst:
\* ESC [ 1 5 ~ (F5), ESC [ 2 0 0 ~ (start of a bracketed paste), ESC [ Z
\* (Shift-Tab) and ESC O P (F1).
UnknownSequences ==
    { <<27, 91, 49, 53, 126>>, <<27, 91, 50, 48, 48, 126>>, <<27, 91, 90>>,
      <<27, 79, 80>> }

\* the other keys of these sessions
EscKeys(l) ==
    {<<_KEY_CTRL_B>>} \cup
    (IF Len(l.buf) < MaxBuf THEN {<<97>>} ELSE {})

\* a known key; what was noted for the last unknown sequence is dropped
EscType ==
    /\ pc = "edit"
    /\ Len(inq) = 0
    /\ \E k \in EscKeys(ls) : Feed([bytes |-> k, ifd |-> ifd])
    /\ navlog' = NoNav
    /\ ref' = NoRef
    /\ UNCHANGED <<engine, file, log, out>>

\* an unknown sequence arrives: edit_feed reads the ESC and what its
\* sequence branch reads; buf, pos and history before the ESC are noted
\* (no more sequences once the buffer holds MaxBuf items)
EscUnknown ==
    /\ pc = "edit"
    /\ Len(inq) = 0
    /\ Len(ls.buf) < MaxBuf
    /\ \E q \in UnknownSequences : Feed([bytes |-> q, ifd |-> ifd])
    /\ ref' = [buf |-> ls.buf, pos |-> ls.pos]
    /\ navlog' = [NoNav EXCEPT !.hist = history, !.n = 1]
    /\ UNCHANGED <<engine, file, log, out>>

\* edit_feed again: it reads a byte the sequence branch left unread
EscDrain ==
    /\ pc = "edit"
    /\ Len(inq) > 0
    /\ Feed([bytes |-> inq, ifd |-> ifd])
    /\ UNCHANGED <<engine, store>>

\* Enter ends the session
EscEnter ==
    /\ pc = "edit"
    /\ Len(inq) = 0
    /\ Feed([bytes |-> <<_KEY_ENTER>>, ifd |-> ifd])
    /\ navlog' = NoNav
    /\ ref' = NoRef
    /\ UNCHANGED <<engine, file, log, out>>

NextEsc ==
    \/ ReadStart
    \/ EscType
    \/ EscUnknown
    \/ EscDrain
    \/ EscEnter

SpecEsc == Init /\ [][NextEsc]_vars

\* ------------------------------------------- sessions with completions
\* read() on an engine with a completion callback. At the Tab that calls
\* complete_line the line state is noted in ref and the history in
\* navlog.hist; navlog.n counts the Tabs since, and is -1 once that Tab has
\* come back without a candidate committed.
\* a key of the main loop
CompType ==
    /\ pc = "edit"
    /\ \E k \in {<<_KEY_CTRL_B>>, <<27, 91, 65>>}
               \cup (IF Len(ls.buf) < MaxBuf THEN {<<97>>, <<32>>} ELSE {}) :
         Feed([bytes |-> k, ifd |-> ifd])
    /\ navlog' = NoNav
    /\ ref' = NoRef
    /\ UNCHANGED <<engine, file, log, out>>

\* Tab in the main loop: the completion callback returns its list; with an
\* empty list edit_feed returns at once
CompTab ==
    /\ pc = "edit"
    /\ Feed([bytes |-> <<_KEY_TAB>>, ifd |-> ifd])
    /\ pc' # "raised"
    /\ ref' = ls
    /\ navlog' = [NoNav EXCEPT !.hist = history, !.text = Str(ls.buf), !.cands = lc',
                               !.n = IF pc' = "complete" THEN 1 ELSE -1]
    /\ UNCHANGED <<engine, file, log, out>>

\* Tab inside complete_line: the next candidate, or the original line
CompNext ==
    /\ pc = "complete"
    /\ navlog.n < MaxTabs
    /\ CFeed([bytes |-> <<_KEY_TAB>>, ifd |-> ifd])
    /\ navlog' = [navlog EXCEPT !.n = navlog.n + 1]
    /\ UNCHANGED <<engine, file, log, ref, out>>

\* a bare Escape inside complete_line: the completion is cancelled
CompCancel ==
    /\ pc = "complete"
    /\ CFeed([bytes |-> <<_KEY_ESC>>, ifd |-> ifd])
    /\ navlog' = [navlog EXCEPT !.n = -1]
    /\ UNCHANGED <<engine, file, log, ref, out>>

\* any other key inside complete_line: the shown candidate is committed and
\* the key goes to the main loop
CompForward ==
    /\ pc = "complete"
    /\ \E k \in {<<_KEY_ENTER>>, <<_KEY_CTRL_B>>, <<27, 91, 65>>} :
         CFeed([bytes |-> k, ifd |-> ifd])
    /\ navlog' = NoNav
    /\ ref' = NoRef
    /\ UNCHANGED <<engine, file, log, out>>

\* Enter in the main loop
CompEnter ==
    /\ pc = "edit"
    /\ Feed([bytes |-> <<_KEY_ENTER>>, ifd |-> ifd])
    /\ navlog' = NoNav
    /\ ref' = NoRef
    /\ UNCHANGED <<engine, file, log, out>>

NextComp ==
    \/ ReadStart
    \/ CompType
    \/ CompTab
    \/ CompNext
    \/ CompCancel
    \/ CompForward
    \/ CompEnter
    \/ HostAdd
    \/ HostSkip

SpecComp == InitTab /\ [][NextComp]_vars

\* ------------------------------------------------- history_set_maxlen
\* The histories an engine can hold when history_set_maxlen is called: up
\* to MaxHist + 1 lines, more than history_maxlen of them after a
\* history_load of a longer file.
LenHists == UNION { [1..n -> NavLines] : n \in 0..(MaxHist + 1) }

\* the arguments of history_set_maxlen
LenArgs == (-1)..MaxHist

InitLen ==
    /\ history \in LenHists
    /\ history_maxlen \in 0..MaxHist
    /\ rawmode = FALSE
    /\ atexit_flag = FALSE
    /\ orig_termios = "None"
    /\ mlmode = FALSE
    /\ completion_callback = FALSE
    /\ hints_callback = FALSE
    /\ hotkey = NoHotkey
    /\ ls = NewLs
    /\ pc = "idle"
    /\ res = MORE
    /\ ret = Pending
    /\ inq = <<>>
    /\ ifd = "open"
    /\ tty = "cooked"
    /\ lc = <<>>
    /\ cidx = 0
    /\ file = NoFile
    /\ log = [adds |-> <<>>, clean |-> TRUE]
    /\ ref = NoRef
    /\ navlog = NoNav
    /\ out = <<>>

\* history_set_maxlen(n); the history and the maximum before the call and
\* the argument are noted
LenSet ==
    /\ pc = "idle"
    /\ \E n \in LenArgs :
         /\ history_set_maxlen(n)
         /\ navlog' = [hist |-> history, maxlen |-> history_maxlen, n |-> n]
    /\ pc' = "returned"
    /\ UNCHANGED <<mlmode, completion_callback, hints_callback, hotkey, term,
                   ls, res, ret, inq, ifd, lc, cidx, file, log, ref, out>>

\* the host goes on
LenAgain ==
    /\ pc = "returned"
    /\ pc' = "idle"
    /\ navlog' = NoNav
    /\ UNCHANGED <<history, engine, term, ls, res, ret, inq, ifd, lc, cidx, file, log, ref, out>>

NextLen ==
    \/ LenSet
    \/ LenAgain

SpecLen == InitLen /\ [][NextLen]_vars

\* ------------------------------------------------------------- loop(fn)
\* The host calls loop(fn, exit_key) between its reads, on an input fd that
\* is a terminal or is not. navlog notes the exit key, the calls of fn and
\* the key probes made so far, and why the loop ended.
RetBool(b) == [kind |-> "bool", val |-> b]

\* the exit keys hosts pass: the default Ctrl-D, or "q"
ExitKeys == {_KEY_CTRL_D, 113}

\* what the key probe _getc(_STDIN, timeout=0.01) finds: _KEY_NULL when
\* select times out, else the byte typed
ProbeKeys == {_KEY_NULL, _KEY_CTRL_D, 113, 97}

\* loop: enable_rawmode, and the return of None when it fails
LoopStart ==
    /\ pc = "idle"
    /\ \E k \in ExitKeys :
         LET e == enable_rawmode
         IN  IF ~e.ok
             THEN /\ pc' = "returned"
                  /\ ret' = RetNone
                  /\ navlog' = [exit_key |-> k, fn |-> 0, probes |-> 0, why |-> "notty"]
                  /\ UNCHANGED term
             ELSE /\ pc' = "loop_fn"
                  /\ ret' = Pending
                  /\ navlog' = [exit_key |-> k, fn |-> 0, probes |-> 0, why |-> ""]
                  /\ SetTerm(e)
    /\ UNCHANGED <<history, engine, ls, res, inq, ifd, lc, cidx, file, log, ref, out>>

\* loop that returns rc without disable_rawmode
LoopEnd_stays_raw(rc) ==
    /\ pc' = "returned"
    /\ ret' = RetBool(rc)
    /\ UNCHANGED term

\* loop after its break: disable_rawmode, return rc
LoopEnd(rc) ==
    /\ pc' = "returned"
    /\ ret' = RetBool(rc)
    /\ SetTerm(Disabled)

\* "if fn():" fn returns true, returns false, or raises; MaxPolls calls at most
LoopFn ==
    /\ pc = "loop_fn"
    /\ \/ /\ LoopEnd(TRUE)
          /\ navlog' = [navlog EXCEPT !.fn = navlog.fn + 1, !.why = "fn"]
       \/ /\ navlog.fn + 1 < MaxPolls
          /\ pc' = "loop_probe"
          /\ navlog' = [navlog EXCEPT !.fn = navlog.fn + 1]
          /\ UNCHANGED <<ret, term>>
       \/ /\ pc' = "raised"
          /\ ret' = Raised("CallbackError")
          /\ navlog' = [navlog EXCEPT !.fn = navlog.fn + 1, !.why = "raise"]
          /\ UNCHANGED term
    /\ UNCHANGED <<history, engine, ls, res, inq, ifd, lc, cidx, file, log, ref, out>>

\* "if _getc(_STDIN, timeout=0.01) == exit_key:"
LoopProbe ==
    /\ pc = "loop_probe"
    /\ \E c \in ProbeKeys :
         IF c = navlog.exit_key
         THEN /\ LoopEnd(FALSE)
              /\ navlog' = [navlog EXCEPT !.probes = navlog.probes + 1, !.why = "key"]
         ELSE /\ pc' = "loop_fn"
              /\ navlog' = [navlog EXCEPT !.probes = navlog.probes + 1]
              /\ UNCHANGED <<ret, term>>
    /\ UNCHANGED <<history, engine, ls, res, inq, ifd, lc, cidx, file, log, ref, out>>

\* the host goes on and may call loop again
LoopAgain ==
    /\ pc = "returned"
    /\ pc' = "idle"
    /\ ret' = Pending
    /\ navlog' = NoNav
    /\ UNCHANGED <<history, engine, term, ls, res, inq, ifd, lc, cidx, file, log, ref, out>>

NextLoop ==
    \/ LoopStart
    \/ LoopFn
    \/ LoopProbe
    \/ LoopAgain

SpecLoop == InitApi /\ [][NextLoop]_vars

\* ---------------------------------------------------------- get_columns
\* int(s, 10) of a string of the characters the replies are made of: it
\* raises ValueError unless s is a non-empty string of digits
IntParses(s) == Len(s) > 0 /\ \A i \in 1..Len(s) : s[i] >= 48 /\ s[i] <= 57

RECURSIVE IntValue(_)
IntValue(s) ==
    IF Len(s) = 0 THEN 0
    ELSE 10 * IntValue(SubSeq(s, 1, Len(s) - 1)) + (s[Len(s)] - 48)

\* the read loop of get_cursor_position on the bytes the terminal sends
\* back: up to the first "R", else all of them until the probe times out
ReadReply(reply) ==
    LET rs == { i \in 1..Len(reply) : reply[i] = 82 }
    IN  IF rs = {} THEN reply
        ELSE SubSeq(reply, 1, CHOOSE i \in rs : \A j \in rs : i <= j)

\* get_cursor_position(ifd, ofd) when the terminal answers the query with
\* reply: the value returned, or the exception raised
get_cursor_position(reply) ==
    LET buf  == ReadReply(reply)
        body == SubSeq(buf, 3, Len(buf) - 1)
        semi == { i \in 1..Len(body) : body[i] = 59 }
        cols == SubSeq(body, (CHOOSE i \in semi : TRUE) + 1, Len(body))
    IN  IF Len(buf) < 6 \/ buf[1] # _KEY_ESC \/ buf[2] # 91 \/ buf[Len(buf)] # 82
        THEN [exc |-> NoExc, val |-> -1]
        ELSE IF Cardinality(semi) # 1 THEN [exc |-> NoExc, val |-> -1]
        ELSE IF ~IntParses(cols) THEN [exc |-> "ValueError", val |-> -1]
        ELSE [exc |-> NoExc, val |-> IntValue(cols)]

\* get_columns(ifd, ofd): w is the width the ioctl yields (0 when it fails
\* or yields none), r1 and r2 the replies to the two cursor queries
get_columns(w, r1, r2) ==
    LET start == get_cursor_position(r1)
        cols  == get_cursor_position(r2)
    IN  IF w # 0 THEN [exc |-> NoExc, val |-> w]
        ELSE IF start.exc # NoExc THEN start
        ELSE IF start.val < 0 THEN [exc |-> NoExc, val |-> _DEFAULT_COLS]
        ELSE IF cols.exc # NoExc THEN cols
        ELSE IF cols.val < 0 THEN [exc |-> NoExc, val |-> _DEFAULT_COLS]
        ELSE cols

\* the characters of a reply: "1", ";" and "a"
ReplyChars == {49, 59, 97}

\* What the terminal sends back to a cursor query: nothing, or six bytes
\* that are a well-formed reply (ESC [ 1 ; 1 R) or depart from it in the
\* first byte, in the fields or in the final byte, or a reply with a column
\* of two digits.
Replies ==
    {<<>>, <<27, 91, 49, 59, 49, 49, 82>>} \cup
    { <<c1, 91, c3, c4, c5, c6>> :
        c1 \in {_KEY_ESC, 97}, c3 \in ReplyChars, c4 \in ReplyChars,
        c5 \in ReplyChars, c6 \in {82, 49} }

\* a reply get_cursor_position can take a column from
WellFormed(reply) ==
    LET body == SubSeq(reply, 3, Len(reply) - 1)
        semi == { i \in 1..Len(body) : body[i] = 59 }
    IN  /\ Len(reply) >= 6
        /\ reply[1] = _KEY_ESC /\ reply[2] = 91 /\ reply[Len(reply)] = 82
        /\ Cardinality(semi) = 1
        /\ \A i \in 1..Len(body) : i \notin semi => (body[i] >= 48 /\ body[i] <= 57)
        /\ 1 \notin semi /\ Len(body) \notin semi

InitCols ==
    /\ history = <<>>
    /\ history_maxlen \in {1}
    /\ rawmode = FALSE
    /\ atexit_flag = FALSE
    /\ orig_termios = "None"
    /\ mlmode = FALSE
    /\ completion_callback = FALSE
    /\ hints_callback = FALSE
    /\ hotkey = NoHotkey
    /\ ls = NewLs
    /\ pc = "idle"
    /\ res = MORE
    /\ ret = Pending
    /\ inq = <<>>
    /\ ifd = "open"
    /\ tty = "cooked"
    /\ lc = <<>>
    /\ cidx = 0
    /\ file = NoFile
    /\ log = [adds |-> <<>>, clean |-> TRUE]
    /\ ref = NoRef
    /\ navlog \in [ioctl : {0, Cols}, r1 : Replies, r2 : Replies]
    /\ out = <<>>

\* line_state.__init__ calls get_columns
GetColumns ==
    /\ pc = "idle"
    /\ LET c == get_columns(navlog.ioctl, navlog.r1, navlog.r2)
       IN  IF c.exc # NoExc
           THEN pc' = "raised" /\ ret' = Raised(c.exc)
           ELSE pc' = "returned" /\ ret' = [kind |-> "int", val |-> c.val]
    /\ UNCHANGED <<history, engine, term, ls, res, inq, ifd, lc, cidx, store>>

NextCols == GetColumns

SpecCols == InitCols /\ [][NextCols]_vars

\* ------------------------------------------------- the menu (src/cli.py)
\* [x for x in line.split(' ') if x != '']: the tokens of a command line
RECURSIVE SplitLine(_, _)
SplitLine(line, cur) ==
    IF Len(line) = 0 THEN (IF Len(cur) = 0 THEN <<>> ELSE <<cur>>)
    ELSE IF Head(line) = 32
    THEN (IF Len(cur) = 0 THEN <<>> ELSE <<cur>>) \o SplitLine(Tail(line), <<>>)
    ELSE SplitLine(Tail(line), Append(cur, Head(line)))

\* name.startswith(cmd)
StartsWith(name, cmd) == Len(cmd) <= Len(name) /\ SubSeq(name, 1, Len(cmd)) = cmd

\* a leaf command and a submenu as menu items
Leaf(name, fn) == [name |-> name, menu |-> FALSE, sub |-> <<>>, fn |-> fn]
SubMenu(name, sub) == [name |-> name, menu |-> TRUE, sub |-> sub, fn |-> ""]

\* The host's menu tree: the commands "ab" (a submenu with the leaves "a"
\* and "b"), "a", "ba" and "bb".
MenuRoot ==
    << SubMenu(<<97, 98>>, << Leaf(<<97>>, "ab_a"), Leaf(<<98>>, "ab_b") >>),
       Leaf(<<97>>, "a"), Leaf(<<98, 97>>, "ba"), Leaf(<<98, 98>>, "bb") >>

\* a matching loop that takes the first item the token is a prefix of
MenuMatches_first_prefix(menu, cmd) ==
    LET pre == { i \in 1..Len(menu) : StartsWith(menu[i].name, cmd) }
    IN  IF pre = {} THEN <<>> ELSE <<menu[CHOOSE i \in pre : \A j \in pre : i <= j]>>

\* the matching loop of parse_cmdline: the first item whose name equals cmd
\* if there is one, else the items whose names start with cmd, in menu order
MenuMatches(menu, cmd) ==
    LET eq == { i \in 1..Len(menu) : menu[i].name = cmd }
    IN  IF eq # {}
        THEN <<menu[CHOOSE i \in eq : \A j \in eq : i <= j]>>
        ELSE SelectSeq(menu, LAMBDA x : StartsWith(x.name, cmd))

\* what parse_cmdline does: the leaf it calls ("" for none) with its
\* arguments, the help it shows, the error it displays, the line it adds to
\* the history (add says whether it does) and the next command line
Parsed(fn, args, help, err, add, next) ==
    [fn |-> fn, args |-> args, help |-> help, err |-> err, add |-> add, next |-> next]

\* parse_cmdline from token idx on, at the menu level menu; the leaves
\* return None
RECURSIVE ParseFrom(_, _, _, _)
ParseFrom(line, toks, idx, menu) ==
    IF idx > Len(toks)
    THEN Parsed("", <<>>, "", "additional input needed", FALSE, line)
    ELSE LET cmd == toks[idx]
             matches == MenuMatches(menu, cmd)
             args == SubSeq(toks, idx + 1, Len(toks))
         IN  IF cmd[Len(cmd)] = 63
             THEN Parsed("", <<>>, "command", "", FALSE, Take(line, Len(line) - 1))
             ELSE IF Len(matches) = 0
             THEN Parsed("", <<>>, "", "unknown command", TRUE, <<>>)
             ELSE IF Len(matches) = 1
             THEN IF matches[1].menu
                  THEN ParseFrom(line, toks, idx + 1, matches[1].sub)
                  ELSE IF Len(args) # 0 /\ args[Len(args)][Len(args[Len(args)])] = 63
                  THEN Parsed("", <<>>, "function", "", FALSE, Take(line, Len(line) - 1))
                  ELSE Parsed(matches[1].fn, args, "", "", TRUE, <<>>)
             ELSE Parsed("", <<>>, "", "ambiguous command", FALSE, <<>>)

\* parse_cmdline(line)
parse_cmdline(line) ==
    LET toks == SplitLine(line, <<>>)
    IN  IF Len(toks) = 0 THEN Parsed("", <<>>, "", "", FALSE, <<>>)
        ELSE ParseFrom(line, toks, 1, MenuRoot)

\* the characters of a command line: "a", "b", " " and "?"
LineChars == {97, 98, 32, 63}

\* the command lines the user enters
CmdLines == UNION { [1..n -> LineChars] : n \in 0..MaxLine }

InitMenu ==
    /\ history = <<>>
    /\ history_maxlen = 1
    /\ rawmode = FALSE
    /\ atexit_flag = FALSE
    /\ orig_termios = "None"
    /\ mlmode = FALSE
    /\ completion_callback = TRUE
    /\ hints_callback = FALSE
    /\ hotkey = 63
    /\ ls = NewLs
    /\ pc = "idle"
    /\ res = MORE
    /\ ret = Pending
    /\ inq = <<>>
    /\ ifd = "open"
    /\ tty = "cooked"
    /\ lc = <<>>
    /\ cidx = 0
    /\ file = NoFile
    /\ log = [adds |-> <<>>, clean |-> TRUE]
    /\ ref = NoRef
    /\ navlog \in [line : CmdLines]
    /\ out = <<>>

\* cli.run: parse_cmdline on the line read
ParseCmdline ==
    /\ pc = "idle"
    /\ LET r == parse_cmdline(navlog.line)
       IN  /\ ret' = r
           /\ history' = IF r.add
                         THEN history_add(history, history_maxlen, Strip(navlog.line))
                         ELSE history
    /\ pc' = "returned"
    /\ UNCHANGED <<engine, term, ls, res, inq, ifd, lc, cidx, store>>

NextMenu == ParseCmdline

SpecMenu == InitMenu /\ [][NextMenu]_vars

\* ------------------------------------------------------------------ claims
\* C1: whenever read() stops running, by a return or by an exception raised
\* inside the feed loop, rawmode is false and the terminal attributes saved
\* by enable_rawmode are in effect again.
C1_RawModeReleased ==
    pc \in {"returned", "raised"} => (rawmode = FALSE /\ tty = "cooked")

\* C2: in every state of a session, after every feed (history navigation and
\* the completion sub-mode included), 0 <= pos <= len(buf), and an empty
\* buffer has pos = 0.
C2_PosInBuf ==
    /\ ls.pos >= 0
    /\ ls.pos <= Len(ls.buf)
    /\ (Len(ls.buf) = 0 => ls.pos = 0)

\* a recalled history entry of two characters or more with the cursor
\* strictly inside it
C2_Witness ==
    /\ pc = "edit"
    /\ ls.history_idx > 0
    /\ ls.pos > 0
    /\ ls.pos < Len(ls.buf)

\* C3: read returns the buffer text for Enter, the buffer text followed by
\* the hotkey character for Hotkey, the empty string for Escape and None for
\* EofOrError.
C3_ReadResult ==
    pc = "returned" =>
        /\ res \in {ENTER, HOTKEY, ESCAPE, EOF_OR_ERROR}
        /\ res = ENTER => ret = RetStr(Str(ls.buf))
        /\ res = HOTKEY => ret = RetStr(Str(ls.buf) \o <<hotkey>>)
        /\ res = ESCAPE => ret = RetStr(<<>>)
        /\ res = EOF_OR_ERROR => ret = RetNone

\* read has returned on the hotkey with text in the buffer
C3_Witness == pc = "returned" /\ res = HOTKEY /\ Len(ls.buf) > 0 /\ hotkey # NoHotkey

\* C4: a call of edit_feed that returns a result other than MORE (Ctrl-C and
\* EOF_OR_ERROR included) has popped the newest entry of a history that is
\* not empty before it returns.
C4_LivePopped ==
    [][(pc \in {"edit", "complete"} /\ pc' = "returned" /\ Len(history) > 0)
       => history' = Take(history, Len(history) - 1)]_vars

\* C5: in every reachable state len(history) <= history_maxlen.
C5_HistoryBounded == Len(history) <= history_maxlen

\* the lines of s are pairwise distinct
Distinct(s) == \A i, j \in 1..Len(s) : i # j => s[i] # s[j]

\* C6: from an empty history with history_maxlen = M, after N pairwise
\* distinct history_add calls the history is the last min(N, M) added lines,
\* in the order they were added.
C6_LastAdds ==
    (log.clean /\ Distinct(log.adds)) =>
        history = Last(log.adds, Min(Len(log.adds), history_maxlen))

\* more distinct lines were added than a history of maxlen >= 1 holds
C6_Witness ==
    /\ log.clean
    /\ Distinct(log.adds)
    /\ history_maxlen >= 1
    /\ Len(log.adds) > history_maxlen

\* C7: from every history state and for every line x, history_add(x) twice
\* leaves the same history as history_add(x) once.
C7_AddTwice ==
    \A x \in HistLines :
        history_add(history_add(history, history_maxlen, x), history_maxlen, x)
            = history_add(history, history_maxlen, x)

\* the same line was added twice in a row to a history that is full
C7_Witness ==
    /\ log.clean
    /\ Len(log.adds) >= 2
    /\ log.adds[Len(log.adds)] = log.adds[Len(log.adds) - 1]
    /\ history_maxlen >= 1
    /\ Len(history) = history_maxlen

\* C8: in every reachable state no two adjacent history entries are equal.
C8_NoAdjacentDuplicates ==
    \A i \in 1..(Len(history) - 1) : history[i] # history[i + 1]

\* C9: history_save followed by history_load leaves the history list as it
\* was: loading a file that holds the saved history gives that history.
C9_SaveLoadIdentity ==
    (file.exists /\ file.text = SaveText(history)) => LoadLines(file.text) = history

\* C10: once a read has found the input fd at end of file or has failed,
\* edit_feed has returned EOF_OR_ERROR and read has returned None: the
\* session is not fed again and no exception is raised.
C10_EofEndsRead ==
    ifd # "open" =>
        /\ pc \notin {"edit", "complete", "raised"}
        /\ pc = "returned" => (res = EOF_OR_ERROR /\ ret = RetNone)

\* C11: no exception leaves the engine on an expected terminal event (Enter,
\* hotkey, Escape, Ctrl-D, any key), whatever history_maxlen (0 included) and
\* the history hold: a read only ever raises what a failing os.read or a
\* raising host callback throws.
C11_NoEngineException ==
    pc = "raised" => ret.kind \in {"OSError", "CallbackError"}

\* C12: with no callbacks, no hotkey, single-line mode and an empty history,
\* after any keys among characters, Backspace, Ctrl-A and Ctrl-E followed by
\* Enter, read has returned the string the reference editor holds.
C12_MatchesReference ==
    pc \in {"returned", "raised"} => ret = RetStr(ref.buf)

\* the key presses that reach the key handling of edit_feed as key events:
\* not the NUL byte (edit_feed takes it for a failed read), not the hotkey,
\* not a Tab that the completion callback takes
KeyEvents(l) ==
    { k \in Keys(l) : /\ Head(k) \notin {_KEY_NULL, hotkey}
                      /\ ~(Head(k) = _KEY_TAB /\ completion_callback) }

\* C13: for every key event, edit_feed returns EOF_OR_ERROR exactly for
\* Ctrl-C (whatever the buffer holds) and for Ctrl-D on an empty buffer;
\* Ctrl-D on a non-empty buffer returns MORE, removes exactly the character
\* at the cursor (nothing at the end of the line) and leaves the cursor and
\* the history alone.
C13_EofKeys ==
    pc = "edit" =>
        \A k \in KeyEvents(ls) :
            LET d == HandleKey(Head(k), Tail(k), ls, history)
            IN  /\ d.exc = NoExc =>
                     (d.res = EOF_OR_ERROR <=>
                        (k = <<3>> \/ (k = <<4>> /\ Len(ls.buf) = 0)))
                /\ (k = <<3>> \/ (k = <<4>> /\ Len(ls.buf) = 0)) => d.exc = NoExc
                /\ (k = <<4>> /\ Len(ls.buf) > 0) =>
                     /\ d.exc = NoExc
                     /\ d.res = MORE
                     /\ d.h = history
                     /\ d.l.pos = ls.pos
                     /\ d.l.buf = IF ls.pos < Len(ls.buf)
                                  THEN SubSeq(ls.buf, 1, ls.pos)
                                        \o SubSeq(ls.buf, ls.pos + 2, Len(ls.buf))
                                  ELSE ls.buf

\* C14: with the history preloaded with n >= 1 non-empty entries e1..en, an
\* empty initial text and no edits, Up pressed k >= 1 times and then Enter
\* makes read return e(n + 1 - min(k, n)).
C14_UpRecalls ==
    (pc \in {"returned", "raised"} /\ navlog.n >= 1 /\ Len(navlog.hist) >= 1) =>
        LET n == Len(navlog.hist)
        IN  ret = RetStr(navlog.hist[n + 1 - Min(navlog.n, n)])

\* C15: with a completion callback that returns N >= 1 candidates for the
\* buffer, Tab pressed 1 + k times and then Enter makes read return candidate
\* number k mod (N + 1) when that is below N, and the original buffer text
\* when it is N.
C15_TabCycles ==
    (pc \in {"returned", "raised"} /\ navlog.n >= 1) =>
        LET N == Len(navlog.cands)
            i == (navlog.n - 1) % (N + 1)
        IN  ret = RetStr(IF i < N THEN navlog.cands[i + 1] ELSE navlog.text)

\* output that erases: "EL" clears from the cursor to the end of the row
Erases(seq) == \E i \in 1..Len(seq) : seq[i] = "EL"

\* output that paints: the prompt, buffer text or a hint
Paints(seq) == \E i \in 1..Len(seq) : seq[i] \in {"PROMPT", "TEXT", "HINT"}

\* what hide and show must leave alone
Framed == <<ls.buf, ls.pos, ls.history_idx, history>>

\* C16: hide() and then show() on a live session leave buf, pos, history
\* and history_idx unchanged; raw mode is off after hide() and on again
\* after show(); hide() writes clearing output and paints nothing, show()
\* paints and clears nothing.
C16_HideShow ==
    [][/\ (pc = "edit" /\ pc' = "hidden") =>
            /\ Framed' = Framed
            /\ ~rawmode' /\ tty' = orig_termios
            /\ Erases(out') /\ ~Paints(out')
       /\ (pc = "hidden" /\ pc' = "edit") =>
            /\ Framed' = Framed
            /\ rawmode' /\ tty' = Raw(tty)
            /\ Paints(out') /\ ~Erases(out')]_vars

\* a multi-line session with text, shown again after hide(): the terminal
\* is raw and the last output painted without clearing
C16_Witness ==
    /\ pc = "edit"
    /\ mlmode
    /\ Len(ls.buf) > 0
    /\ rawmode
    /\ Paints(out) /\ ~Erases(out)

\* C17: whenever rawmode is true, the exit handler is registered and
\* orig_termios holds the attributes the terminal had before raw mode was
\* entered (the cooked ones it started with), so that disable_rawmode puts
\* them back.
C17_SnapshotHeld ==
    rawmode => (atexit_flag /\ orig_termios = "cooked")

\* C18: edit_start on an input fd that is not a terminal returns None and
\* changes nothing: the history, the terminal state and the line state are
\* as before and nothing is written; edit_blocking then yields EOF_OR_ERROR
\* and read_raw returns None.
C18_NoTty ==
    [][/\ (pc = "idle" /\ ~isatty /\ pc' # "idle") =>
            /\ pc' = "nostate"
            /\ UNCHANGED <<history, term, ls>>
            /\ ~rawmode'
            /\ out' = <<>>
       /\ (pc = "nostate" /\ pc' # "nostate") =>
            /\ res' = EOF_OR_ERROR
            /\ ret' = RetNone
            /\ UNCHANGED <<history, term>>]_vars

\* read_raw has returned None on an input fd that is not a terminal
C18_Witness ==
    /\ pc = "returned"
    /\ ~isatty
    /\ res = EOF_OR_ERROR
    /\ ret = RetNone
    /\ history = <<>>
    /\ tty = "cooked"

\* C19: for every key event outside complete_line (a key press read from
\* the open terminal), edit_feed returns ESCAPE exactly when the byte read
\* is ESC and no byte follows it within the timeout; an ESC with bytes
\* behind it gives MORE.
C19_BareEscape ==
    (pc = "edit" /\ ifd = "open" /\ Len(inq) = 0) =>
      \A k \in KeyEvents(ls) :
        LET d == HandleKey(Head(k), Tail(k), ls, history)
        IN  /\ (d.exc = NoExc /\ d.res = ESCAPE) <=> (k = <<_KEY_ESC>>)
            /\ (Head(k) = _KEY_ESC /\ Len(k) > 1) => (d.exc = NoExc /\ d.res = MORE)

\* C20: ESC O H puts the cursor at the start of the buffer and ESC O F at
\* its end, with the same outcome as ESC [ H and ESC [ F.
C20_EscOHomeEnd ==
    (pc = "edit" /\ ifd = "open" /\ Len(inq) = 0) =>
      LET OH == HandleKey(_KEY_ESC, <<79, 72>>, ls, history)
          OF == HandleKey(_KEY_ESC, <<79, 70>>, ls, history)
      IN  /\ OH.l.pos = 0
          /\ OF.l.pos = Len(ls.buf)
          /\ OH = HandleKey(_KEY_ESC, <<91, 72>>, ls, history)
          /\ OF = HandleKey(_KEY_ESC, <<91, 70>>, ls, history)

\* each navigation escape sequence with the control key said to equal it
NavPairs ==
    { [seq |-> <<27, 91, 65>>, key |-> _KEY_CTRL_P],
      [seq |-> <<27, 91, 66>>, key |-> _KEY_CTRL_N],
      [seq |-> <<27, 91, 67>>, key |-> _KEY_CTRL_F],
      [seq |-> <<27, 91, 68>>, key |-> _KEY_CTRL_B],
      [seq |-> <<27, 91, 72>>, key |-> _KEY_CTRL_A],
      [seq |-> <<27, 91, 70>>, key |-> _KEY_CTRL_E],
      [seq |-> <<_KEY_BS>>,    key |-> _KEY_CTRL_H] }

\* the line state the key handling of edit_feed works on: inside
\* complete_line the shown candidate is committed before the key is returned
KeyLs == IF pc = "complete" THEN Commit(ls, lc, cidx) ELSE ls

\* C21: from every session state, each navigation escape sequence and
\* Backspace give the same line state, history, result and unread input as
\* the control key equal to it.
C21_SequencesAsKeys ==
    pc \in {"edit", "complete"} =>
      \A p \in NavPairs :
        HandleKey(Head(p.seq), Tail(p.seq), KeyLs, history)
          = HandleKey(p.key, <<>>, KeyLs, history)

\* a state where the pairs act: the cursor inside a text of two characters
\* recalled from a history of two entries
C21_Witness ==
    /\ pc = "edit"
    /\ Len(ls.buf) = 2
    /\ ls.pos = 1
    /\ Len(history) = 2
    /\ ls.history_idx = 1

\* C22: after an escape sequence outside the recognised table, no result
\* other than MORE is produced while its bytes are consumed, and once all
\* of them are consumed buf, pos and history are as they were before the ESC.
C22_UnknownDiscarded ==
    navlog.n = 1 =>
      /\ pc = "edit"
      /\ Len(inq) = 0 =>
           /\ ls.buf = ref.buf
           /\ ls.pos = ref.pos
           /\ history = navlog.hist

\* C23: while complete_line runs, from the Tab that enters it until a key
\* is forwarded or the completion is cancelled, and when that Tab has come
\* back with nothing committed, the history is what it was before the Tab.
C23_CompletionKeepsHistory ==
    (pc = "complete" \/ navlog.n = -1) => history = navlog.hist

\* the second candidate is shown after two Tabs, with two history entries
C23_Witness ==
    /\ pc = "complete"
    /\ navlog.n = 2
    /\ cidx = 1
    /\ Len(history) = 2

\* C24: when a Tab has come back with nothing committed (the callback gave
\* no candidates, or a bare Escape cancelled after any number of Tabs),
\* edit_feed has returned MORE, buf and pos are what they were before the
\* Tab, and the rows and cursor drawn are those of the original line.
C24_TabWithoutCommit ==
    navlog.n = -1 =>
      /\ pc = "edit"
      /\ res = MORE
      /\ ls.buf = ref.buf
      /\ ls.pos = ref.pos
      /\ ls.maxrows = ref.maxrows
      /\ ls.oldpos = ref.oldpos

\* a bare Escape has cancelled a completion that had candidates, with the
\* cursor inside the text
C24_Witness ==
    /\ navlog.n = -1
    /\ Len(navlog.cands) > 0
    /\ Len(ls.buf) > 0
    /\ ls.pos < Len(ls.buf)
    /\ pc = "edit"

\* the key handling of edit_feed on an engine with no hints callback
\* ("if self.hints_callback:" is false at Enter and at the hotkey)
HandleKeyNoHints(c, rest, l, h) ==
    IF c = _KEY_ENTER \/ c = hotkey
    THEN PopAndReturn(l, h, IF c = _KEY_ENTER THEN ENTER ELSE HOTKEY, rest)
    ELSE HandleKey(c, rest, l, h)

\* the key presses that reach the key handling: not the NUL byte, not a Tab
\* that the completion callback takes
HandledKeys(l) ==
    { k \in Keys(l) : /\ Head(k) # _KEY_NULL
                      /\ ~(Head(k) = _KEY_TAB /\ completion_callback) }

\* what of an outcome of the key handling is not display: buffer, cursor,
\* history entry shown, history, result, unread input, exception
Shown(d) == [buf |-> d.l.buf, pos |-> d.l.pos, idx |-> d.l.history_idx,
             h |-> d.h, res |-> d.res, left |-> d.left, exc |-> d.exc]

C26_SetMaxlen ==
    pc = "returned" =>
      IF navlog.n >= 0
      THEN /\ history_maxlen = navlog.n
           /\ Len(history) = Min(navlog.n, Len(navlog.hist))
           /\ \A i \in 1..Len(history) :
                history[i] = navlog.hist[Len(navlog.hist) - Len(history) + i]
      ELSE /\ history_maxlen = navlog.maxlen
           /\ history = navlog.hist

\* history_set_maxlen(1) has cut a history of three entries to its newest
C26_Witness ==
    /\ pc = "returned"
    /\ navlog.n = 1
    /\ Len(navlog.hist) = 3
    /\ navlog.hist[1] # navlog.hist[3]
    /\ history = <<navlog.hist[3]>>

\* C27: loop returns True when fn returned true and False when the exit
\* key was read (and only then); fn has been called once more than the key
\* has been probed whenever the key is probed; and whenever loop has
\* returned raw mode is off and the terminal has its attributes back.
C27_Loop ==
    /\ pc = "returned" =>
         /\ ~rawmode
         /\ tty = "cooked"
         /\ ret = RetBool(TRUE) <=> navlog.why = "fn"
         /\ ret = RetBool(FALSE) <=> navlog.why = "key"
    /\ pc = "loop_probe" => navlog.fn = navlog.probes + 1
    /\ pc = "loop_fn" => navlog.fn = navlog.probes

\* loop has returned False on the exit key after fn was called twice
C27_Witness ==
    /\ pc = "returned"
    /\ ret = RetBool(FALSE)
    /\ navlog.fn = 2
    /\ navlog.probes = 2
    /\ atexit_flag

\* C28: get_columns raises nothing and returns a column count of at least
\* 1; when the ioctl yields no width and a cursor query gets no reply, a
\* reply cut short or a malformed one (wrong framing, fields that are not
\* numbers), it returns 80.
C28_ColumnsFallback ==
    pc \in {"returned", "raised"} =>
      /\ ret.kind = "int"
      /\ ret.val >= 1
      /\ (navlog.ioctl = 0 /\ ~(WellFormed(navlog.r1) /\ WellFormed(navlog.r2)))
           => ret.val = _DEFAULT_COLS

\* the items of a menu a token stands for: the items of that name if there
\* are any, else the items whose names it is a prefix of
Resolve(menu, tok) ==
    LET eq  == { i \in 1..Len(menu) : menu[i].name = tok }
        pre == { i \in 1..Len(menu) : StartsWith(menu[i].name, tok) }
    IN  IF eq # {} THEN eq ELSE pre

\* The path of a command line through the menu: "leaf" with the leaf and
\* the tokens after it when every token up to a leaf stands for exactly one
\* item, "fail" at a token that stands for none or for several, "help" at a
\* token that ends with "?", "short" when the tokens end at a submenu.
RECURSIVE MenuPath(_, _, _)
MenuPath(toks, idx, menu) ==
    IF idx > Len(toks) THEN [ok |-> "short", fn |-> "", args |-> <<>>]
    ELSE IF toks[idx][Len(toks[idx])] = 63 THEN [ok |-> "help", fn |-> "", args |-> <<>>]
    ELSE IF Cardinality(Resolve(menu, toks[idx])) # 1
    THEN [ok |-> "fail", fn |-> "", args |-> <<>>]
    ELSE LET item == menu[CHOOSE i \in Resolve(menu, toks[idx]) : TRUE]
         IN  IF item.menu THEN MenuPath(toks, idx + 1, item.sub)
             ELSE [ok |-> "leaf", fn |-> item.fn, args |-> SubSeq(toks, idx + 1, Len(toks))]

\* C29: parse_cmdline calls a leaf only when every token on the path stands
\* for exactly one menu item, by name or else by prefix, and passes it the
\* tokens that follow; it calls that leaf unless the last of these asks for
\* help; at a token that stands for no item or for several it calls nothing
\* and returns the empty line.
C29_MenuDispatch ==
    pc = "returned" =>
      LET toks == SplitLine(navlog.line, <<>>)
          path == MenuPath(toks, 1, MenuRoot)
          last == toks[Len(toks)]
      IN  /\ ret.fn # "" => (path.ok = "leaf" /\ ret.fn = path.fn /\ ret.args = path.args)
          /\ (path.ok = "leaf" /\ (path.args = <<>> \/ last[Len(last)] # 63))
               => (ret.fn = path.fn /\ ret.args = path.args)
          /\ path.ok = "fail" => (ret.fn = "" /\ ret.next = <<>>)

\* "a b" has called the leaf "a", whose name is also a prefix of "ab", with
\* the argument "b"
C29_Witness ==
    /\ pc = "returned"
    /\ navlog.line = <<97, 32, 98>>
    /\ ret.fn = "a"
    /\ ret.args = << <<98>> >>


\* ------------------------------------------------------ the rendered rows
\* the hint of src/example.py, " World"
HintLen == 6

\* refresh_singleline: "scroll the characters to the left if we are at max
\* columns", then cut what does not fit; idx, blen and pos after both loops
\* while (plen + pos) >= self.cols: idx += 1; blen -= 1; pos -= 1
RECURSIVE scroll_left(_)
scroll_left(w) ==
    IF PLen + w.pos >= Cols
    THEN scroll_left([idx |-> w.idx + 1, blen |-> w.blen - 1, pos |-> w.pos - 1])
    ELSE w

\* while (plen + blen) > self.cols: blen -= 1
RECURSIVE clip_right(_)
clip_right(w) ==
    IF PLen + w.blen > Cols THEN clip_right([w EXCEPT !.blen = w.blen - 1]) ELSE w

\* refresh_singleline without the second loop
singleline_window_unclipped(l) ==
    scroll_left([idx |-> 0, blen |-> Len(l.buf), pos |-> l.pos])

singleline_window(l) ==
    clip_right(scroll_left([idx |-> 0, blen |-> Len(l.buf), pos |-> l.pos]))

\* refresh_show_hints: hlen, the part of the hint that is written
hint_len(l, hints) ==
    IF refresh_show_hints(l, hints) = <<>> THEN 0
    ELSE Min(HintLen, Cols - PLen - Len(l.buf))

\* refresh_singleline: the terminal rows taken by the prompt, the window of
\* the buffer and the hint it writes
singleline_rows(l, hints) ==
    (PLen + singleline_window(l).blen + hint_len(l, hints) + Cols - 1) \div Cols

\* rows on the terminal after the last refresh: refresh_multiline keeps the
\* number in maxrows, refresh_singleline writes one run of characters
rendered_rows(l, ml, hints) == IF ml THEN l.maxrows ELSE singleline_rows(l, hints)

\* rows = (plen + len(buf) + cols - 1) // cols
buf_rows(l) == (PLen + Len(l.buf) + Cols - 1) \div Cols

\* C30: while a line is being edited, after every key the number of rendered
\* rows is ceil((plen + len(buf)) / cols) in multi-line mode and 1 in
\* single-line mode.
C30_RenderedRows ==
    pc \in {"edit", "complete"} =>
      rendered_rows(KeyLs, mlmode, hints_callback)
        = IF mlmode THEN buf_rows(ls) ELSE 1

\* ------------------------------------------------------- maxrows over time
\* C31: in multi-line mode maxrows never decreases across the refreshes of
\* one session.
C31_MaxrowsHighWater ==
    [][(pc \in {"edit", "complete"} /\ pc' \in {"edit", "complete"} /\ mlmode)
         => ls'.maxrows >= ls.maxrows]_vars

\* ------------------------------------------------ the terminal's cursor
\* The terminal as refresh_multiline drives it: row and col of the cursor and
\* the set of rows that hold characters, rows counted from 1 at the row where
\* the prompt was first written. crow and cleft are the cursor row and the
\* rows still holding characters at the end of the last clearing phase, pos
\* the cursor position that the last refresh drew.
NoTerm == [row |-> 1, col |-> 0, painted |-> {}, crow |-> 1, cleft |-> {}, pos |-> 0]

\* refresh_multiline, "if clear": go down to the last row, clear every row
\* going up, clear the top line
term_clear(l, t) ==
    LET rpos     == (PLen + l.oldpos + Cols) \div Cols
        old_rows == l.maxrows
        down     == IF old_rows - rpos > 0 THEN old_rows - rpos ELSE 0
        ups      == IF old_rows - 1 > 0 THEN old_rows - 1 ELSE 0
        last     == t.row + down
    IN  [t EXCEPT !.row = last - ups, !.col = 0,
                  !.painted = t.painted \ ((last - ups)..last)]

\* refresh_multiline, "if write": prompt, buffer and hint from the cursor
\* on (an empty string in buf writes nothing), the newline at the end of the
\* screen, then up to the cursor's row and right to its column
term_write(l, t, hints) ==
    LET n     == PLen + Len(Str(l.buf)) + hint_len(l, hints)
        endr  == t.row + ((n - 1) \div Cols)
        rows  == (PLen + Len(l.buf) + Cols - 1) \div Cols
        atend == l.pos # 0 /\ l.pos = Len(l.buf) /\ (l.pos + PLen) % Cols = 0
        rows2 == IF atend THEN rows + 1 ELSE rows
        rpos2 == (PLen + l.pos + Cols) \div Cols
        up    == IF rows2 - rpos2 > 0 THEN rows2 - rpos2 ELSE 0
    IN  [t EXCEPT !.row = (IF atend THEN endr + 1 ELSE endr) - up,
                  !.col = (PLen + l.pos) % Cols,
                  !.painted = t.painted \cup (t.row..endr),
                  !.pos = l.pos]

\* refresh_multiline(clear=True, write=True) on the terminal
refresh_multiline_term(l, t, hints) ==
    LET c == term_clear(l, t)
    IN  [term_write(l, c, hints) EXCEPT !.crow = c.row, !.cleft = c.painted]

\* the longest buffer of a session on the terminal
MaxText == 5

\* the texts that edit_set shows: history entries and completions
TermTexts == {<<>>, <<97, 97>>, <<97, 97, 97, 97, 97>>}

\* a session in multi-line mode after edit_start
InitTerm ==
    /\ history = <<>>
    /\ history_maxlen = 0
    /\ rawmode = TRUE
    /\ atexit_flag = TRUE
    /\ orig_termios = "cooked"
    /\ mlmode = TRUE
    /\ completion_callback = TRUE
    /\ hints_callback \in BOOLEAN
    /\ hotkey = NoHotkey
    /\ \E s \in {<<>>, <<97>>} :
         LET m == [NewLs EXCEPT !.buf = s, !.pos = Len(s)]
         IN  /\ ls = refresh_line(m, TRUE)
             /\ navlog = refresh_multiline_term(m, NoTerm, hints_callback)
    /\ pc = "edit"
    /\ res = MORE
    /\ ret = Pending
    /\ inq = <<>>
    /\ ifd = "open"
    /\ tty = "raw"
    /\ lc = <<>>
    /\ cidx = 0
    /\ file = NoFile
    /\ log = [adds |-> <<>>, clean |-> TRUE]
    /\ ref = NoRef
    /\ out = <<>>

\* refresh_line of the line state m, on the terminal too
Painted(m) ==
    /\ ls' = refresh_line(m, TRUE)
    /\ navlog' = refresh_multiline_term(m, navlog, hints_callback)
    /\ UNCHANGED <<history, engine, term, res, ret, inq, lc, cidx, pc, file, log, ref, out>>

\* edit_insert of a typed character
TermInsert ==
    /\ ifd = "open" /\ Len(ls.buf) < MaxText
    /\ Painted([ls EXCEPT !.buf = InsertAt(ls.buf, ls.pos, 97), !.pos = ls.pos + 1])
    /\ UNCHANGED ifd

\* the terminal has hung up: _getc gives "" and edit_feed inserts it
TermEof ==
    /\ Len(ls.buf) < MaxText
    /\ Painted([ls EXCEPT !.buf = InsertAt(ls.buf, ls.pos, EMPTY), !.pos = ls.pos + 1])
    /\ ifd' = "eof"

\* edit_backspace
TermBackspace ==
    /\ ifd = "open" /\ ls.pos > 0 /\ Len(ls.buf) > 0
    /\ Painted([ls EXCEPT !.buf = PopAt(ls.buf, ls.pos - 1), !.pos = ls.pos - 1])
    /\ UNCHANGED ifd

\* edit_move_left, edit_move_right, edit_move_home, edit_move_end
TermMove ==
    /\ ifd = "open"
    /\ \E p \in {ls.pos - 1, ls.pos + 1, 0, Len(ls.buf)} :
         /\ p \in 0..Len(ls.buf) /\ p # ls.pos
         /\ Painted([ls EXCEPT !.pos = p])
    /\ UNCHANGED ifd

\* edit_set with a history entry or a committed completion
TermSet ==
    /\ ifd = "open"
    /\ \E s \in TermTexts : Painted([ls EXCEPT !.buf = s, !.pos = Len(s)])
    /\ UNCHANGED ifd

\* complete_line shows a candidate and restores buf and pos
TermPreview ==
    /\ ifd = "open"
    /\ \E s \in TermTexts \ {<<>>} :
         /\ ls' = Preview(ls, <<s>>, 0)
         /\ navlog' = refresh_multiline_term([ls EXCEPT !.buf = s, !.pos = Len(s)],
                                             navlog, hints_callback)
    /\ UNCHANGED <<history, engine, term, res, ret, inq, ifd, lc, cidx, pc, file, log, ref, out>>

\* complete_line shows the original line again
TermRedraw ==
    /\ ifd = "open"
    /\ Painted(ls)
    /\ UNCHANGED ifd

NextTerm ==
    \/ TermInsert
    \/ TermEof
    \/ TermBackspace
    \/ TermMove
    \/ TermSet
    \/ TermPreview
    \/ TermRedraw

SpecTerm == InitTerm /\ [][NextTerm]_vars

\* C32: after every refresh in multi-line mode the cursor is on row
\* floor((plen + pos + cols) / cols) of the edit area at column
\* (plen + pos) mod cols, and the clearing phase of that refresh has erased
\* every row painted before and ended on the first row.
C32_CursorAndClear ==
    /\ navlog.row = (PLen + navlog.pos + Cols) \div Cols
    /\ navlog.col = (PLen + navlog.pos) % Cols
    /\ navlog.crow = 1
    /\ navlog.cleft = {}

\* --------------------------------------------- the single-line view window
\* the buffers and cursors that refresh_singleline is given
WinBufs == UNION { [1..n -> {97, 98}] : n \in 0..MaxText }

InitWin ==
    /\ history = <<>>
    /\ history_maxlen = 0
    /\ rawmode = TRUE
    /\ atexit_flag = TRUE
    /\ orig_termios = "cooked"
    /\ mlmode = FALSE
    /\ completion_callback = FALSE
    /\ hints_callback = FALSE
    /\ hotkey = NoHotkey
    /\ \E b \in WinBufs : \E p \in 0..Len(b) : ls = [NewLs EXCEPT !.buf = b, !.pos = p]
    /\ pc = "edit"
    /\ res = MORE
    /\ ret = Pending
    /\ inq = <<>>
    /\ ifd = "open"
    /\ tty = "raw"
    /\ lc = <<>>
    /\ cidx = 0
    /\ file = NoFile
    /\ log = [adds |-> <<>>, clean |-> TRUE]
    /\ ref = NoRef
    /\ navlog = NoNav
    /\ out = <<>>

\* refresh_singleline computes its window
WinRefresh ==
    /\ pc = "edit"
    /\ pc' = "returned"
    /\ navlog' = singleline_window(ls)
    /\ UNCHANGED <<history, engine, term, session, file, log, ref, out>>

NextWin == WinRefresh

SpecWin == InitWin /\ [][NextWin]_vars

\* C33: in single-line mode with plen < cols the window [idx, idx + blen)
\* has 0 <= idx <= pos, blen >= 0, idx + blen <= len(buf),
\* plen + (pos - idx) < cols and plen + blen <= cols, and the cursor lies
\* inside the visible slice.
C33_ViewWindow ==
    (pc = "returned" /\ PLen < Cols) =>
      /\ 0 <= navlog.idx /\ navlog.idx <= ls.pos
      /\ navlog.blen >= 0
      /\ navlog.idx + navlog.blen <= Len(ls.buf)
      /\ navlog.pos = ls.pos - navlog.idx
      /\ PLen + (ls.pos - navlog.idx) < Cols
      /\ PLen + navlog.blen <= Cols
      /\ ls.pos - navlog.idx <= navlog.blen

\* both loops have acted: the window starts after the first character and
\* ends before the last
C33_Witness ==
    /\ pc = "returned"
    /\ navlog.idx > 0
    /\ navlog.idx + navlog.blen < Len(ls.buf)

\* ------------------------------------------------------ the history index
\* C34: during a session 0 <= history_idx <= len(history) - 1; history_next
\* at the newest entry and history_prev at the oldest leave history_idx
\* unchanged.
C34_HistoryIdxInRange ==
    pc \in {"edit", "complete"} =>
      /\ 0 <= ls.history_idx
      /\ ls.history_idx <= Len(history) - 1
      /\ ls.history_idx = 0
           => history_next(history, KeyLs, mlmode).l.history_idx = 0
      /\ ls.history_idx = Len(history) - 1
           => history_prev(history, KeyLs, mlmode).l.history_idx = ls.history_idx

\* C35: from a history_idx that is not the oldest entry, history-prev and
\* then history-next come back to the same history_idx and the same buffer
\* text, edits made before leaving the entry included.
C35_PrevThenNext ==
    (pc \in {"edit", "complete"} /\ KeyLs.history_idx < Len(history) - 1) =>
      LET p == HandleKey(_KEY_CTRL_P, <<>>, KeyLs, history)
          n == HandleKey(_KEY_CTRL_N, <<>>, p.l, p.h)
      IN  /\ n.l.history_idx = KeyLs.history_idx
          /\ Str(n.l.buf) = Str(KeyLs.buf)

\* the user has edited the newest entry of a history of two, and
\* history-prev shows another text
C35_Witness ==
    /\ pc = "edit"
    /\ Len(history) = 2
    /\ ls.history_idx = 0
    /\ Str(ls.buf) # history[2]
    /\ Str(HandleKey(_KEY_CTRL_P, <<>>, ls, history).l.buf) # Str(ls.buf)

\* ------------------------------------------------------------ swap twice
\* Ctrl-T on a buffer of two or more with the cursor inside it
SwapFirst ==
    /\ pc = "edit" /\ navlog.n = 0
    /\ Len(ls.buf) >= 2 /\ ls.pos < Len(ls.buf)
    /\ ls' = edit_swap(ls, mlmode)
    /\ ref' = [buf |-> ls.buf, pos |-> ls.pos]
    /\ navlog' = [navlog EXCEPT !.n = 1]
    /\ UNCHANGED <<history, engine, term, res, ret, inq, ifd, lc, cidx, pc, file, log, out>>

\* Ctrl-B after the advance: the cursor goes back to where it was
SwapBack ==
    /\ pc = "edit" /\ navlog.n = 1
    /\ ls.pos # ref.pos
    /\ ls' = edit_move_left(ls, mlmode)
    /\ UNCHANGED <<history, engine, term, res, ret, inq, ifd, lc, cidx, pc, store>>

\* Ctrl-T again with the cursor at the same position
SwapSecond ==
    /\ pc = "edit" /\ navlog.n = 1
    /\ ls.pos = ref.pos
    /\ ls' = edit_swap(ls, mlmode)
    /\ navlog' = [navlog EXCEPT !.n = 2]
    /\ UNCHANGED <<history, engine, term, res, ret, inq, ifd, lc, cidx, pc, file, log, ref, out>>

NextSwap ==
    \/ SwapFirst
    \/ SwapBack
    \/ SwapSecond

SpecSwap == InitWin /\ [][NextSwap]_vars

\* C36: on a buffer of length >= 2 with the cursor not at the end, edit_swap
\* applied twice with the cursor at the same position restores the buffer.
C36_SwapTwice ==
    navlog.n = 2 => ls.buf = ref.buf

\* swapped twice, with an advance in between, two characters that differ
C36_Witness ==
    /\ navlog.n = 2
    /\ ref.pos > 0
    /\ ref.pos < Len(ref.buf) - 1
    /\ ref.buf[ref.pos] # ref.buf[ref.pos + 1]

\* ------------------------------------------------- the display after a feed
\* C37: when edit_feed has returned MORE, the last refresh has written the
\* current buf with the cursor at the current pos, feeds that went through
\* complete_line included.
C37_DisplayCurrent ==
    (pc = "edit" /\ res = MORE) => ls.shown = [buf |-> ls.buf, pos |-> ls.pos]

\* ------------------------------------------- sessions without navigation
\* read() on an engine whose history the host has filled; the user types,
\* deletes and moves the cursor, none of it history navigation, then ends
\* the line with Enter or Escape.
NeutralKeys(l) ==
    {<<_KEY_CTRL_H>>, <<_KEY_CTRL_B>>} \cup (IF Len(l.buf) < MaxBuf THEN {<<97>>} ELSE {})

NeutralKey ==
    /\ pc = "edit"
    /\ \E k \in NeutralKeys(ls) : Feed([bytes |-> k, ifd |-> "open"])
    /\ UNCHANGED <<engine, store>>

NeutralEnd ==
    /\ pc = "edit"
    /\ \E k \in {<<_KEY_ENTER>>, <<_KEY_ESC>>} : Feed([bytes |-> k, ifd |-> "open"])
    /\ UNCHANGED <<engine, store>>

NextNeutral ==
    \/ ReadStart
    \/ NeutralKey
    \/ NeutralEnd
    \/ NavAgain

SpecNeutral == InitNav /\ [][NextNeutral]_vars

\* C38: with history_maxlen >= 1, a session of editing keys without history
\* navigation that ends with Enter or Escape leaves the history list as it
\* was before edit_start.
C38_SessionNeutral ==
    (pc = "returned" /\ res \in {ENTER, ESCAPE} /\ history_maxlen >= 1)
      => history = navlog.hist

\* ------------------------------------------------ sessions that browse
\* read() with the empty initial text on an engine whose history has room
\* for the session's entry; the user browses the history with Ctrl-P and
\* Ctrl-N, types and deletes, then presses Enter.
InitBrowse ==
    /\ InitNav
    /\ history_maxlen > Len(history)

BrowseKeys(l) ==
    {<<_KEY_CTRL_P>>, <<_KEY_CTRL_N>>, <<_KEY_CTRL_H>>}
      \cup (IF Len(l.buf) < MaxBuf THEN {<<98>>} ELSE {})

BrowseKey ==
    /\ pc = "edit"
    /\ \E k \in BrowseKeys(ls) : Feed([bytes |-> k, ifd |-> "open"])
    /\ UNCHANGED <<engine, store>>

NextBrowse ==
    \/ NavStart
    \/ BrowseKey
    \/ NavEnter
    \/ NavAgain

SpecBrowse == InitBrowse /\ [][NextBrowse]_vars

\* C39: after the session has ended, every entry that was in the history
\* before edit_start holds its text of then, whatever the user recalled,
\* edited and left.
C39_EntriesKept ==
    (pc = "returned" /\ res = ENTER) =>
      \A i \in 1..Len(navlog.hist) :
        i <= Len(history) /\ history[i] = navlog.hist[i]

=============================================================================
